---- MODULE Spec2Model ----
(***************************************************************************)
(* Model of the tracing subsystem of loggy-node: LoggySpan (span.ts),      *)
(* LoggyTracer (the tracer class, second half of tracing/middleware.ts)    *)
(* and the withSpan helper: span lifecycle, the active-span registry and   *)
(* context lookups, the span buffer and the flush / requeue / destroy      *)
(* pipeline.                                                               *)
(*                                                                         *)
(* JavaScript runs handlers to completion on one thread; the only          *)
(* suspension point of the tracer is `await fetch(...)` inside flush().    *)
(* Each action below is one such run-to-completion step: a public call     *)
(* up to its return (or first await), or the continuation of one flush()   *)
(* after its fetch settled.                                                *)
(***************************************************************************)
EXTENDS Integers, Sequences, FiniteSets, TLC

\* ------------------------------------------------------------------ bounds
MaxSpans == 2          \* spans started in the pipeline specifications
MaxBatch == 2          \* explicit remote.batchSize values are 1..MaxBatch
MaxSpanOps == 1        \* spans started in the span specification
MaxCalls == 2          \* span mutator calls in one behaviour
MaxEvents == 2         \* events added to one span
MaxLiveSpans == 1      \* spans started in the liveness specification
MaxCtxSpans == 3       \* spans started in the context specifications

\* ------------------------------------------------------- program constants
DefaultBatchSize == 100

\* --------------------------------------------------------- input alphabets
Undefined == "undefined"   \* an absent string
NoId == 0                  \* an absent (undefined) span id
NullId == -1               \* the null span id of SpanData.parentSpanId
NoTime == 0                \* an unset Date
Absent == {}               \* an omitted optional field; {v}: set to v
Now == 1
AttrKeys == {"k1", "k2"}
AttrVals == {"a", "b"}

\* the options.attributes given to startSpan: none (or empty), or one entry
StartAttributes == { {}, { << "k1", "a" >> } }

\* what fn of a withSpan call resolves with
Values == {"v1", "v2"}

VARIABLES
  token,        \* remote?.token is set
  publicKey,    \* what encryptPayload does with remote.publicKey, if set
  batchSize,    \* this.batchSize
  flushTimer,   \* this.flushTimer is armed (non-null)
  spans,        \* every LoggySpan created so far, indexed by span id
  activeSpans,  \* the module-level Map, as its keys in insertion order
  spanBuffer,   \* this.spanBuffer
  inflight,     \* flush() invocations suspended at `await fetch`
  delivered,    \* per span id, the number of ok-answered POSTs that carried it
  destroyed,    \* the destroy() call, its promise and what it swapped out
  netUp,        \* from now on every POST is answered ok
  last,         \* the call or continuation that ran last, and how it ended
  scn,          \* observer of the sequence flush / failure / flush / success
  calls,        \* the number of span mutator calls made so far
  snapshot,     \* the SpanData object a caller of toData() holds, if any
  history,      \* per span: the options it was started with, and whether an
                \* attribute was set / an event added while it was recording
  returned,     \* what the last getCurrentSpan / getCurrentContext / inject
                \* call was given and what it returned
  ws,           \* the latest withSpan call: its span, how fn settled and how
                \* the call itself settled; outer: the span of the call
                \* whose fn made this call while it was pending, if any
  codec,        \* the latest parseTraceparent / formatTraceparent calls: what
                \* they were given and what they returned
  http,         \* the requests the tracing middleware has seen: per request
                \* its span and the calls of next(), of res.end and of the
                \* error listener; the path and headers of the latest
                \* request and the res.statusCode of the latest res.end
  metrics,      \* the metrics tracker CreateMetrics returned: its config,
                \* buckets, timer, flush() and destroy() calls suspended at
                \* `await fetch`, and the requests being measured
  logger        \* the loggers CreateLoggy returned, each with its config,
                \* originalConsole, consolePatched, logBuffer, flushTimer
                \* and flushLogs() calls suspended at `await fetch`; and the
                \* function installed as console.log/info/warn/error

vars == << token, publicKey, batchSize, flushTimer, spans, activeSpans,
           spanBuffer, inflight, delivered, destroyed, netUp, last, scn,
           calls, snapshot, history, returned, ws, codec,
           http, metrics, logger >>

configVars == << token, publicKey, batchSize >>

\* what only the callers of the span and context API hold
apiVars == << snapshot, history, returned, ws, http >>

\* state outside the tracer and its spans
outsideVars == << codec, metrics, logger >>

\* ----------------------------------------------------------------- helpers
Range(q) == { q[i] : i \in 1..Len(q) }

\* Map.delete(k) and Map.set(k, ...) on the keys of a Map in insertion order
KeyKept(q, k) == q

RemoveKey(q, k) == SelectSeq(q, LAMBDA x : x # k)

MapSet(q, k) == IF k \in Range(q) THEN q ELSE Append(q, k)

Occ(q, s) == Cardinality({ i \in 1..Len(q) : q[i].spanId = s })

RECURSIVE SetSum(_, _)
SetSum(S, s) ==
  IF S = {} THEN 0
  ELSE LET f == CHOOSE x \in S : TRUE
       IN Occ(f.batch, s) + SetSum(S \ {f}, s)

NothingReturned ==
  [ arg |-> {}, carrier |-> {}, context |-> Absent, span |-> Absent ]

\* CreateMetrics has not been called. A tracker has its config (disabled),
\* the wall clock in minutes, buckets (the Map as the function from its
\* keys), flushTimer, the flush() calls
\* suspended at `await fetch` (flights: per call the buckets it took, the
\* pending count before it, the requests recorded since, and whether another
\* call has removed or re-added buckets since), the destroy() call (and
\* whether a request was recorded after it), the
\* start minutes of the startRequest() calls not yet ended, the latest
\* trackRequest() call (when it started, how its handler settled and how it
\* settled itself), the call that ran last, and the numbers of recordRequest
\* and flush() calls so far
NoMetrics ==
  [ st |-> "none", disabled |-> FALSE, clock |-> 1,
    buckets |-> [ k \in {} |-> 0 ], flushTimer |-> FALSE, flights |-> {},
    destroy |-> [ st |-> "none", rec |-> 0 ],
    open |-> << >>,
    track |-> [ st |-> "none", id |-> 0, start |-> 0, settled |-> "-",
                result |-> "-" ],
    last |-> [ op |-> "none", how |-> "-", before |-> 0, rec |-> 0,
               others |-> FALSE, same |-> FALSE ],
    n |-> 0, flushes |-> 0 ]

\* no parseTraceparent / formatTraceparent call has been made
NoCodecCall ==
  [ op |-> "none", header |-> Absent, context |-> Absent,
    parsed |-> Absent, formatted |-> Absent ]

\* enq: how many records were enqueued while the settled fetch was in flight
Call(op, origin, how, result) ==
  [ op |-> op, origin |-> origin, how |-> how, result |-> result, enq |-> 0 ]

\* -------------------------------------------------------------- LoggySpan
NewSpan(id, traceId, parentSpanId) ==
  [ spanId |-> id, traceId |-> traceId, parentSpanId |-> parentSpanId,
    status |-> "unset", statusMessage |-> Undefined,
    attributes |-> {}, events |-> << >>,
    endTime |-> NoTime, recording |-> TRUE, onEnd |-> "this" ]

\* `new LoggySpan(name, service, {traceId, parentSpanId, attributes, onEnd})`
\* as startSpan of tracer tr calls it: options.attributes is copied, absent
\* or empty alike, and onEnd is bound to tracer tr
LoggySpan(id, traceId, parentSpanId, attributes, tr) ==
  [ NewSpan(id, traceId, parentSpanId) EXCEPT
      !.attributes = attributes, !.onEnd = tr ]

setStatus(sp, status, message) ==
  IF ~sp.recording THEN sp
  ELSE [ sp EXCEPT !.status = status, !.statusMessage = message ]

\* attribute maps are sets of <<key, value>> pairs with unique keys
Keys(attrs) == { kv[1] : kv \in attrs }

InsertIfAbsent(attrs, new) ==
  attrs \cup { kv \in new : kv[1] \notin Keys(attrs) }

Upsert(attrs, new) == { kv \in attrs : kv[1] \notin Keys(new) } \cup new

setAttributeUnguarded(sp, key, value) ==
  [ sp EXCEPT !.attributes = Upsert(@, { << key, value >> }) ]

setAttribute(sp, key, value) ==
  IF ~sp.recording THEN sp
  ELSE [ sp EXCEPT !.attributes = Upsert(@, { << key, value >> }) ]

setAttributes(sp, attributes) ==
  IF ~sp.recording THEN sp
  ELSE [ sp EXCEPT !.attributes = Upsert(@, attributes) ]

addEvent(sp, name) ==
  IF ~sp.recording THEN sp
  ELSE [ sp EXCEPT !.events = Append(@, [ name |-> name ]) ]

\* `if (!this._recording) return;` at the head of end(): a later call
\* neither sets _endTime again nor runs the completion callback
endUnguarded(sp, endTime) ==
  [ sp EXCEPT !.endTime = IF endTime = NoTime THEN Now ELSE endTime,
              !.recording = FALSE ]

\* `this._endTime = endTime || new Date();`: without an argument (NoTime)
\* the span ends at the time of the call
end(sp, endTime) ==
  IF ~sp.recording THEN sp
  ELSE [ sp EXCEPT !.endTime = IF endTime = NoTime THEN Now ELSE endTime,
                   !.recording = FALSE ]

\* whether end() on span sp reaches `this._onEnd(this)`
CallsOnEndAlways(sp) == TRUE

CallsOnEnd(sp) == sp.recording

isRecording(sp) == sp.recording

\* `span.context`
Context(sp) == [ traceId |-> sp.traceId, spanId |-> sp.spanId ]

\* `Object.keys(this._attributes).length > 0 ? this._attributes : undefined`
\* and `this._events.length > 0 ? this._events : undefined`
toDataWithEmpty(sp) ==
  [ traceId |-> sp.traceId,
    spanId |-> sp.spanId,
    parentSpanId |-> IF sp.parentSpanId = NoId THEN NullId ELSE sp.parentSpanId,
    endTime |-> sp.endTime,
    status |-> sp.status,
    statusMessage |-> sp.statusMessage,
    attributes |-> {sp.attributes},
    events |-> {sp.events} ]

toData(sp) ==
  [ traceId |-> sp.traceId,
    spanId |-> sp.spanId,
    parentSpanId |-> IF sp.parentSpanId = NoId THEN NullId ELSE sp.parentSpanId,
    endTime |-> sp.endTime,
    status |-> sp.status,
    statusMessage |-> sp.statusMessage,
    attributes |-> IF Cardinality(Keys(sp.attributes)) > 0
                   THEN {sp.attributes} ELSE Absent,
    events |-> IF Len(sp.events) > 0 THEN {sp.events} ELSE Absent ]

\* the object toData() returns holds `this._attributes` and `this._events`
\* themselves, not copies: the two fields are references to the containers
\* of span sp, which setAttribute(s) and addEvent change in place
Aliases(sp) ==
  [ attributes |-> IF Cardinality(Keys(sp.attributes)) > 0
                   THEN {sp.spanId} ELSE Absent,
    events |-> IF Len(sp.events) > 0 THEN {sp.spanId} ELSE Absent ]

\* what a holder of the object sn reads from it now
Observed(sn) ==
  [ sn.taken EXCEPT
      !.attributes = { spans[s].attributes : s \in sn.refs.attributes },
      !.events = { spans[s].events : s \in sn.refs.events } ]

\* ---------------------------------------------------------------- withSpan
\* the span as the handler `(result) => { span.setStatus("ok"); span.end();
\* return result; }` has it when it calls end()
onFulfilledUnset(sp) == sp

onFulfilled(sp) == setStatus(sp, "ok", Undefined)

\* the span as the handler `(err) => { span.setStatus("error", err.message);
\* span.addEvent("exception", {...}); span.end(); throw err; }` has it when
\* it calls end()
onRejected(sp, err) ==
  addEvent(setStatus(sp, "error",
                     IF err = "Error" THEN "msg" ELSE Undefined),
           "exception")

\* ------------------------------------------------------------ LoggyTracer
\* generateTraceId(), generateSpanId(): random hex strings, taken to be
\* fresh; the n-th one generated is modelled by the number n
generateTraceId(n) == n

generateSpanId(n) == n

\* a context received from another process (tracer.extract of its headers)
RemoteContext == [ traceId |-> 99, spanId |-> 98 ]

\* the span startSpan(name, {parent, attributes}) of tracer tr builds;
\* parent is Absent or {context}
startSpanOrphan(n, parent, attributes, tr) ==
  LoggySpan(generateSpanId(n), generateTraceId(n), NoId, attributes, tr)

startSpan(n, parent, attributes, tr) ==
  IF parent # Absent
  THEN LET P == CHOOSE c \in parent : TRUE
       IN LoggySpan(generateSpanId(n), P.traceId, P.spanId, attributes, tr)
  ELSE LoggySpan(generateSpanId(n), generateTraceId(n), NoId, attributes, tr)

\* `activeSpanArray[activeSpanArray.length - 1]` of
\* `Array.from(activeSpans.values())`: the last entry of the registry in
\* insertion order, undefined when it is empty
getFirstSpan(active) ==
  IF Len(active) = 0 THEN Absent ELSE { active[1] }

getCurrentSpan(active) ==
  IF Len(active) = 0 THEN Absent ELSE { active[Len(active)] }

\* `${VERSION}-${context.traceId}-${context.spanId}-${flags}`, traceFlags 1
formatTraceparent(context) ==
  << "00", context.traceId, context.spanId, "01" >>

\* carriers are header maps: sets of <<header, value>> with unique headers
injectContext(context, carrier) ==
  Upsert(carrier, { << "traceparent", formatTraceparent(context) >> })

\* `if (!this.remote?.token || this.spanBuffer.length === 0) return;`
OnlyTokenChecked(tok, buf) == ~tok

FlushReturnsEarly(tok, buf) == ~tok \/ Len(buf) = 0

\* `this.spanBuffer = [];` after `const spansToSend = [...this.spanBuffer];`
NotSwapped(buf) == buf

Swapped(buf) == << >>

\* `this.spanBuffer = [...spansToSend, ...this.spanBuffer];`
RequeueDropped(spansToSend, buf) == buf

RequeueAppended(spansToSend, buf) == buf \o spansToSend

Requeue(spansToSend, buf) == spansToSend \o buf

\* `if (this.spanBuffer.length >= this.batchSize)`
ExceededBatchSize(len, size) == len > size

ReachedBatchSize(len, size) == len >= size

\* the promise of an async flush() whose try block ended the way `how` says:
\* every throw is caught by the bare `catch`, so the promise always resolves
Rethrown(how) == IF how \in {"throw", "encrypt"} THEN "rejected" ELSE "resolved"

FlushPromise(how) == "resolved"

\* `this.flush();` in onSpanEnd: the promise is neither awaited nor returned,
\* so end() returns whatever becomes of it
FireAndForget(promise) == "returned"

\* `await this.flush();` in destroy(): its promise follows the flush's
NotAwaited(promise) == "resolved"

AwaitFlush(promise) == promise

\* `if (this.remote?.token) { this.flushTimer = setInterval(...) }`
NoTimer(tok) == FALSE

AlwaysTimer(tok) == TRUE

StartedTimer(tok) == tok

\* `clearInterval(this.flushTimer); this.flushTimer = null;`
KeptTimer(timer) == timer

ClearedTimer(timer) == FALSE

Enqueued(S, rec) == { [ f EXCEPT !.enq = Append(@, rec) ] : f \in S }

\* flush() from its call up to its return or its `await fetch`; a throw of
\* encryptPayload before the fetch lands in the same catch as a rejected fetch
flush(buf, infl, origin) ==
  IF FlushReturnsEarly(token, buf)
  THEN [ buf |-> buf, infl |-> infl, how |-> "noop", batch |-> << >>,
         result |-> "resolved" ]
  ELSE IF publicKey = "throws"
  THEN [ buf |-> Requeue(buf, Swapped(buf)), infl |-> infl, how |-> "encrypt",
         batch |-> buf, result |-> FlushPromise("encrypt") ]
  ELSE [ buf |-> Swapped(buf),
         infl |-> infl \cup
                  { [ batch |-> buf, origin |-> origin, enq |-> << >> ] },
         how |-> "posted", batch |-> buf, result |-> "pending" ]

Idle == [ st |-> "idle", b1 |-> << >>, b2 |-> << >>, posts |-> 0 ]

ScnAfterFlush(origin, F, inflBefore) ==
  IF origin = "manual" /\ scn.st = "failed1"
  THEN IF F.how = "posted"
       THEN [ st |-> "second", b1 |-> scn.b1, b2 |-> F.batch, posts |-> 2 ]
       ELSE [ st |-> "done", b1 |-> scn.b1, b2 |-> << >>, posts |-> 1 ]
  ELSE IF origin = "manual" /\ F.how = "posted" /\ inflBefore = {}
  THEN [ st |-> "first", b1 |-> F.batch, b2 |-> << >>, posts |-> 1 ]
  ELSE IF origin = "timer" /\ F.how = "noop" /\ scn.st \in {"first", "second"}
  THEN scn
  ELSE Idle

ScnAfterSettle(outcome) ==
  IF scn.st = "first" /\ outcome # "ok" THEN [ scn EXCEPT !.st = "failed1" ]
  ELSE IF scn.st = "second" /\ outcome = "ok" THEN [ scn EXCEPT !.st = "done" ]
  ELSE Idle

\* ------------------------------------------------------------------- Init
Init ==
  /\ token \in BOOLEAN
  \* "ok": no public key, or one encryptPayload accepts (they differ in
  \* the body and content type of the POST only); "throws": one
  \* encryptPayload throws on
  /\ publicKey \in {"ok", "throws"}
  /\ batchSize \in (1..MaxBatch) \cup {DefaultBatchSize}
  /\ ~token => (publicKey = "ok" /\ batchSize = DefaultBatchSize)
  /\ flushTimer = StartedTimer(token)
  /\ spans = << >>
  /\ activeSpans = << >>
  /\ spanBuffer = << >>
  /\ inflight = {}
  /\ delivered = [ s \in 1..(MaxSpans + MaxSpanOps + MaxLiveSpans) |-> 0 ]
  /\ destroyed = [ st |-> "none", ended |-> {}, how |-> "-" ]
  /\ netUp = FALSE
  /\ last = Call("init", "-", "-", "-")
  /\ scn = Idle
  /\ calls = 0
  /\ snapshot = Absent
  /\ history = [ parent |-> << >>, attrs |-> {}, events |-> {} ]
  /\ returned = NothingReturned
  /\ ws = [ st |-> "none", span |-> NoId, settled |-> "-", result |-> "-",
            spans |-> {}, outer |-> NoId ]
  /\ codec = NoCodecCall
  /\ http = [ reqs |-> << >>, path |-> << >>, headers |-> {}, code |-> 0 ]
  /\ metrics = NoMetrics
  \* CreateLoggy has not been called: console.log, info, warn and error are
  \* the functions of the runtime (0; the function a logger i installs is i:
  \* the four methods are always assigned together), no logger is made, and of
  \* the console and logger calls so far (n) the latest was heard by no logger
  /\ logger = [ console |-> 0, made |-> << >>, heard |-> {}, n |-> 0 ]

\* ---------------------------------------------------------------- actions
\* startSpan(name, {parent, attributes}) called on tracer tr: "this" is the
\* tracer of the model, "other" another LoggyTracer of the process that has
\* no remote configured
StartSpanWith(max, parent, attributes, tr) ==
  /\ Len(spans) < max
  /\ LET span == startSpan(Len(spans) + 1, parent, attributes, tr)
     IN /\ spans' = Append(spans, span)
        /\ activeSpans' = MapSet(activeSpans, span.spanId)
        /\ history' = [ history EXCEPT
                          !.parent = Append(@, parent),
                          !.attrs = IF attributes # {}
                                    THEN @ \cup {span.spanId} ELSE @ ]
        /\ last' = Call("startSpan", "-", "-", "returned")
  /\ UNCHANGED outsideVars
  /\ UNCHANGED << configVars, snapshot, returned, ws, flushTimer, spanBuffer,
                  inflight, delivered, destroyed, netUp, scn, calls >>

\* tracer.startSpan(name) without a parent
StartSpan(max) ==
  StartSpanWith(max, Absent, {}, "this") /\ UNCHANGED http

\* span.end(endTime) as the last call of operation op, on span s as op has
\* left it (sp0), including the tracer's onSpanEnd callback
EndAs(op, s, t, sp0) ==
  /\ IF ~CallsOnEnd(sp0)
     THEN /\ spans' = [ spans EXCEPT ![s] = end(sp0, t) ]
          /\ last' = Call(op, IF t = sp0.endTime THEN "same"
                              ELSE "other", "noop", "returned")
          /\ UNCHANGED << activeSpans, spanBuffer, inflight, scn >>
     ELSE LET sp == end(sp0, t)
              rec == toData(sp)
              tok == token /\ sp.onEnd = "this"
              buf1 == IF tok THEN Append(spanBuffer, rec) ELSE spanBuffer
              infl1 == IF tok THEN Enqueued(inflight, rec) ELSE inflight
              full == tok /\ ReachedBatchSize(Len(buf1), batchSize)
              F == IF full THEN flush(buf1, infl1, "threshold")
                   ELSE [ buf |-> buf1, infl |-> infl1, how |-> "-",
                          batch |-> << >>, result |-> "-" ]
          IN /\ spans' = [ spans EXCEPT ![s] = sp ]
             /\ activeSpans' = RemoveKey(activeSpans, s)
             /\ spanBuffer' = F.buf
             /\ inflight' = F.infl
             /\ last' = Call(op, "threshold", F.how,
                             FireAndForget(F.result))
             /\ scn' = Idle
  /\ UNCHANGED << codec, metrics >>
  /\ UNCHANGED << configVars, flushTimer, delivered, destroyed, netUp,
                  calls >>

\* span.end(endTime) called by the application
End(s, t) ==
  /\ s \in DOMAIN spans
  /\ EndAs("end", s, t, spans[s])
  /\ UNCHANGED logger
  /\ UNCHANGED apiVars

FlushCall(origin) ==
  LET F == flush(spanBuffer, inflight, origin)
  IN /\ spanBuffer' = F.buf
     /\ inflight' = F.infl
     /\ last' = Call("flush", origin, F.how, F.result)
     /\ scn' = ScnAfterFlush(origin, F, inflight)
     /\ UNCHANGED << codec, metrics >>
     /\ UNCHANGED << configVars, apiVars, flushTimer, spans, activeSpans,
                     delivered, destroyed, netUp, calls >>

\* span.setStatus(status, message)
SetStatus(s, status, message) ==
  /\ s \in DOMAIN spans
  /\ spans' = [ spans EXCEPT ![s] = setStatus(@, status, message) ]
  /\ last' = Call("setStatus", "-", "-", "returned")
  /\ calls < MaxCalls
  /\ calls' = calls + 1
  /\ UNCHANGED outsideVars
  /\ UNCHANGED << configVars, apiVars, flushTimer, activeSpans, spanBuffer,
                  inflight, delivered, destroyed, netUp, scn >>

\* span.setAttribute(key, value)
SetAttribute(s, key, value) ==
  /\ s \in DOMAIN spans
  /\ spans' = [ spans EXCEPT ![s] = setAttribute(@, key, value) ]
  /\ last' = Call("setAttribute", "-", "-", "returned")
  /\ history' = [ history EXCEPT
                  !.attrs = IF isRecording(spans[s]) THEN @ \cup {s} ELSE @ ]
  /\ calls < MaxCalls
  /\ calls' = calls + 1
  /\ UNCHANGED outsideVars
  /\ UNCHANGED http
  /\ UNCHANGED << configVars, snapshot, returned, ws, flushTimer, activeSpans,
                  spanBuffer, inflight, delivered, destroyed, netUp, scn >>

\* span.setAttributes(attributes)
SetAttributes(s, attributes) ==
  /\ s \in DOMAIN spans
  /\ spans' = [ spans EXCEPT ![s] = setAttributes(@, attributes) ]
  /\ last' = Call("setAttributes", "-", "-", "returned")
  /\ history' = [ history EXCEPT
                  !.attrs = IF isRecording(spans[s]) /\ attributes # {}
                                  THEN @ \cup {s} ELSE @ ]
  /\ calls < MaxCalls
  /\ calls' = calls + 1
  /\ UNCHANGED outsideVars
  /\ UNCHANGED http
  /\ UNCHANGED << configVars, snapshot, returned, ws, flushTimer, activeSpans,
                  spanBuffer, inflight, delivered, destroyed, netUp, scn >>

\* span.addEvent(name)
AddEvent(s, name) ==
  /\ s \in DOMAIN spans
  /\ Len(spans[s].events) < MaxEvents
  /\ spans' = [ spans EXCEPT ![s] = addEvent(@, name) ]
  /\ last' = Call("addEvent", "-", "-", "returned")
  /\ history' = [ history EXCEPT
                  !.events = IF isRecording(spans[s]) THEN @ \cup {s} ELSE @ ]
  /\ calls < MaxCalls
  /\ calls' = calls + 1
  /\ UNCHANGED outsideVars
  /\ UNCHANGED http
  /\ UNCHANGED << configVars, snapshot, returned, ws, flushTimer, activeSpans,
                  spanBuffer, inflight, delivered, destroyed, netUp, scn >>

\* span.toData() called by the application, which keeps the result
ToData(s) ==
  /\ s \in DOMAIN spans
  /\ snapshot' = { [ spanId |-> s, taken |-> toData(spans[s]),
                     refs |-> Aliases(spans[s]) ] }
  /\ last' = Call("toData", "-", "-", "returned")
  /\ UNCHANGED outsideVars
  /\ UNCHANGED http
  /\ UNCHANGED << configVars, history, returned, ws, flushTimer, spans,
                  activeSpans,
                  spanBuffer, inflight, delivered, destroyed, netUp, scn,
                  calls >>

\* tracer.getCurrentSpan(), on whichever tracer of the process
GetCurrentSpan ==
  /\ returned' = [ NothingReturned EXCEPT
                     !.span = getCurrentSpan(activeSpans) ]
  /\ last' = Call("getCurrentSpan", "-", "-", "returned")
  /\ UNCHANGED outsideVars
  /\ UNCHANGED http
  /\ UNCHANGED << configVars, snapshot, history, ws, flushTimer, spans,
                  activeSpans, spanBuffer, inflight, delivered, destroyed,
                  netUp, scn, calls >>

\* tracer.getCurrentContext(): {} without a current span
GetCurrentContext ==
  /\ returned' = [ NothingReturned EXCEPT
                     !.context = { Context(spans[s]) :
                                     s \in getCurrentSpan(activeSpans) } ]
  /\ last' = Call("getCurrentContext", "-", "-", "returned")
  /\ UNCHANGED outsideVars
  /\ UNCHANGED http
  /\ UNCHANGED << configVars, snapshot, history, ws, flushTimer, spans,
                  activeSpans, spanBuffer, inflight, delivered, destroyed,
                  netUp, scn, calls >>

\* the carrier tracer.inject(carrier) returns
injectFresh(active, carrier) ==
  IF Len(active) = 0 THEN {}
  ELSE injectContext(Context(spans[active[Len(active)]]), carrier)

inject(active, carrier) ==
  IF Len(active) = 0 THEN carrier
  ELSE injectContext(Context(spans[active[Len(active)]]), carrier)

\* tracer.inject(carrier): the carrier is changed in place and returned
Inject(carrier) ==
  /\ returned' = [ NothingReturned EXCEPT
                     !.arg = carrier,
                     !.carrier = inject(activeSpans, carrier) ]
  /\ last' = Call("inject", "-", "-", "returned")
  /\ UNCHANGED outsideVars
  /\ UNCHANGED http
  /\ UNCHANGED << configVars, snapshot, history, ws, flushTimer, spans,
                  activeSpans, spanBuffer, inflight, delivered, destroyed,
                  netUp, scn, calls >>

\* withSpan(tracer, name, fn, attributes) up to its return: the span is
\* started under the current span, then fn() is called; fn either returns
\* its promise or throws before it returns one, and that throw leaves
\* withSpan before `.then(...).catch(...)` is reached
WithSpan(max, attributes, fnThrows) ==
  /\ Len(spans) < max
  /\ LET parent == { Context(spans[s]) : s \in getCurrentSpan(activeSpans) }
         span == startSpan(Len(spans) + 1, parent, attributes, "this")
         outer == IF ws.st = "pending" THEN ws.span ELSE NoId
     IN /\ spans' = Append(spans, span)
        /\ activeSpans' = MapSet(activeSpans, span.spanId)
        /\ history' = [ history EXCEPT
                          !.parent = Append(@, parent),
                          !.attrs = IF attributes # {}
                                    THEN @ \cup {span.spanId} ELSE @ ]
        /\ ws' = IF fnThrows
                 THEN [ st |-> "threw", span |-> span.spanId,
                        settled |-> "Error", result |-> "Error",
                        spans |-> ws.spans \cup {span.spanId},
                        outer |-> outer ]
                 ELSE [ st |-> "pending", span |-> span.spanId,
                        settled |-> "-", result |-> "-",
                        spans |-> ws.spans \cup {span.spanId},
                        outer |-> outer ]
        /\ last' = Call("withSpan", "-", "-",
                        IF fnThrows THEN "threw" ELSE "returned")
  /\ UNCHANGED outsideVars
  /\ UNCHANGED http
  /\ UNCHANGED << configVars, snapshot, returned, flushTimer, spanBuffer,
                  inflight, delivered, destroyed, netUp, scn, calls >>

\* the promise of fn resolves with v: the `.then` handler runs and the
\* promise of withSpan resolves with what it returns
FnResolve(v) ==
  /\ ws.st = "pending"
  /\ EndAs("withSpan.then", ws.span, Now, onFulfilled(spans[ws.span]))
  /\ UNCHANGED logger
  /\ ws' = [ ws EXCEPT !.st = "resolved", !.settled = v, !.result = v ]
  /\ UNCHANGED << snapshot, history, returned, http >>

\* the promise of fn rejects with err: the `.catch` handler runs and the
\* promise of withSpan rejects with what it throws
FnReject(err) ==
  /\ ws.st = "pending"
  \* `err.message`, `err.name`, `err.stack` can be read of every value but
  \* null and undefined, of which reading a property throws a TypeError
  /\ IF err # "null"
     THEN /\ EndAs("withSpan.catch", ws.span, Now,
                   onRejected(spans[ws.span], err))
          /\ history' = [ history EXCEPT !.events = @ \cup {ws.span} ]
          /\ ws' = [ ws EXCEPT !.st = "rejected", !.settled = err,
                               !.result = err ]
          /\ UNCHANGED logger
     ELSE /\ ws' = [ ws EXCEPT !.st = "rejected", !.settled = err,
                               !.result = "TypeError" ]
          /\ last' = Call("withSpan.catch", "-", "-", "threw")
          /\ UNCHANGED outsideVars
          /\ UNCHANGED << configVars, history, flushTimer, spans,
                          activeSpans, spanBuffer, inflight, delivered,
                          destroyed, netUp, scn, calls >>
  /\ UNCHANGED << snapshot, returned, http >>

\* tracer.flush() called by the application
Flush == FlushCall("manual") /\ UNCHANGED logger

\* the setInterval callback `() => this.flush()`
TimerFlush ==
  /\ flushTimer
  /\ FlushCall("timer")
  /\ UNCHANGED logger

\* tracer.destroy() up to its return or the await inside its flush()
Destroy ==
  /\ destroyed.st = "none"
  /\ LET F == flush(spanBuffer, inflight, "destroy")
         ended == { s \in DOMAIN spans : ~spans[s].recording }
     IN /\ flushTimer' = IF flushTimer THEN ClearedTimer(flushTimer)
                         ELSE flushTimer
        /\ spanBuffer' = F.buf
        /\ inflight' = F.infl
        /\ destroyed' = [ st |-> AwaitFlush(F.result),
                          ended |-> ended, how |-> F.how ]
        /\ last' = Call("destroy", "destroy", F.how, AwaitFlush(F.result))
        /\ scn' = Idle
  /\ UNCHANGED << codec, metrics >>
  /\ UNCHANGED << configVars, apiVars, spans, activeSpans, delivered, netUp,
                  calls >>

\* the continuation of flush() after `await fetch` settled with `outcome`
Settle(f, outcome) ==
  /\ f \in inflight
  /\ LET rest == inflight \ {f}
         failed == outcome # "ok"
     IN /\ spanBuffer' = IF failed THEN Requeue(f.batch, spanBuffer)
                         ELSE spanBuffer
        /\ inflight' = rest
        /\ delivered' = IF failed THEN delivered
                        ELSE [ s \in DOMAIN delivered |->
                                 delivered[s] + Occ(f.batch, s) ]
        /\ destroyed' = IF f.origin = "destroy"
                        THEN [ destroyed EXCEPT
                                 !.st = AwaitFlush(FlushPromise(outcome)),
                                                !.how = outcome ]
                        ELSE destroyed
        /\ last' = [ Call("settle", f.origin, outcome, FlushPromise(outcome))
                        EXCEPT !.enq = Len(f.enq) ]
        /\ scn' = ScnAfterSettle(outcome)
  /\ UNCHANGED << codec, metrics >>
  /\ UNCHANGED << configVars, apiVars, flushTimer, spans, activeSpans, netUp,
                  calls >>

\* the endpoint recovers: every POST answered from now on is answered ok
Heal ==
  /\ ~netUp
  /\ netUp' = TRUE
  /\ UNCHANGED outsideVars
  /\ UNCHANGED << configVars, apiVars, flushTimer, spans, activeSpans,
                  spanBuffer, inflight, delivered, destroyed, last, scn,
                  calls >>

\* response.ok
FetchOk == (\E f \in inflight : Settle(f, "ok")) /\ UNCHANGED logger

\* !response.ok
FetchNotOk ==
  ~netUp /\ (\E f \in inflight : Settle(f, "notok")) /\ UNCHANGED logger

\* fetch rejected
FetchThrow ==
  ~netUp /\ (\E f \in inflight : Settle(f, "throw")) /\ UNCHANGED logger

\* ----------------------------------------------------------- specifications
Next ==
  \/ StartSpan(MaxSpans)
  \/ \E s \in 1..MaxSpans : End(s, Now)
  \/ Flush
  \/ TimerFlush
  \/ Destroy /\ UNCHANGED logger
  \/ FetchOk
  \/ FetchNotOk
  \/ FetchThrow

Spec == Init /\ [][Next]_vars

\* the span API on spans of a tracer; the tracer is left to its callback
NextSpan ==
  \/ /\ \E a \in StartAttributes :
          StartSpanWith(MaxSpanOps, Absent, a, "this")
     /\ UNCHANGED http
  \/ \E s \in 1..MaxSpanOps :
       \/ \E st \in {"ok", "error"}, m \in {Undefined, "msg"} :
            SetStatus(s, st, m)
       \/ \E k \in AttrKeys, v \in AttrVals : SetAttribute(s, k, v)
       \/ \E a \in { m \in SUBSET (AttrKeys \X AttrVals) :
                        \A p \in m, q \in m : p[1] = q[1] => p = q } :
            SetAttributes(s, a)
       \/ AddEvent(s, "exception")
       \/ \E t \in {NoTime, Now, Now + 1} : End(s, t)

\* the span API does not depend on the transport: tracers with the default
\* batch size whose encryption does not throw
InitSpan == Init /\ publicKey = "ok" /\ batchSize = DefaultBatchSize

SpecSpan == InitSpan /\ [][NextSpan]_vars

\* the span API with a caller that keeps what toData() returned
NextSnapshot ==
  \/ NextSpan
  \/ \E s \in 1..MaxSpanOps : ToData(s)

SpecSnapshot == InitSpan /\ [][NextSnapshot]_vars

\* a tracer that is never destroyed, with an endpoint that may recover
NextLive ==
  \/ StartSpan(MaxLiveSpans)
  \/ \E s \in 1..MaxLiveSpans : End(s, Now)
  \/ Flush
  \/ TimerFlush
  \/ FetchOk
  \/ FetchNotOk
  \/ FetchThrow
  \/ Heal

\* the interval timer keeps firing and every fetch settles
Fairness ==
  /\ WF_vars(TimerFlush)
  /\ WF_vars(FetchOk \/ FetchNotOk \/ FetchThrow)

SpecLive == Init /\ [][NextLive]_vars /\ Fairness

\* two tracers of one process starting and ending spans, and the lookups of
\* the current span
NextContext ==
  \/ /\ \E tr \in {"this", "other"} :
          StartSpanWith(MaxCtxSpans, Absent, {}, tr)
     /\ UNCHANGED http
  \/ \E s \in 1..MaxCtxSpans : End(s, Now)
  \/ GetCurrentSpan
  \/ GetCurrentContext
  \/ \E c \in { {},
                 { << "traceparent", formatTraceparent(RemoteContext) >> },
                 { << "x-request-id", << "r1" >> >> } } :
       Inject(c)

SpecContext == InitSpan /\ [][NextContext]_vars

\* withSpan calls one after the other, beside spans the application starts
\* and ends itself; it holds no reference to the spans withSpan creates
NextWithSpan ==
  \/ StartSpan(MaxSpans)
  \/ \E s \in 1..MaxSpans : s \notin ws.spans /\ End(s, Now)
  \/ \E a \in StartAttributes, fnThrows \in BOOLEAN :
       ws.st # "pending" /\ WithSpan(MaxSpans, a, fnThrows)
  \/ \E v \in Values : FnResolve(v)
  \/ \E err \in {"Error", "string", "null"} : FnReject(err)

SpecWithSpan == Init /\ [][NextWithSpan]_vars

\* startSpan with and without a parent, and end(); options.parent is
\* nothing (absent or null), the context of a span of this process, or a
\* context extracted from headers
NextParent ==
  \/ /\ \E P \in {Absent} \cup {{RemoteContext}}
                     \cup { {Context(spans[s])} : s \in DOMAIN spans } :
          StartSpanWith(MaxCtxSpans, P, {}, "this")
     /\ UNCHANGED http
  \/ \E s \in 1..MaxCtxSpans : End(s, Now)

SpecParent == InitSpan /\ [][NextParent]_vars

\* ------------------------------------------------------- derived predicates
Ended(s) == s \in DOMAIN spans /\ ~spans[s].recording

\* the most recently started of the spans still recording, if any: span ids
\* are numbered in the order the spans were started
MostRecentActive ==
  { s \in DOMAIN spans :
      /\ isRecording(spans[s])
      /\ \A r \in DOMAIN spans : isRecording(spans[r]) => r <= s }

\* the number of places holding the record of span s
Places(s) == Occ(spanBuffer, s) + SetSum(inflight, s) + delivered[s]

\* this step is a run of operation op
Did(op) == last' # last /\ last'.op = op

\* this step is the continuation of flush f
Settled(f) == f \in inflight /\ \A g \in inflight' : g.batch # f.batch

\* ... after its POST failed
FailedSettle(f) == Settled(f) /\ delivered' = delivered

\* this step ran a flush whose encryption threw
FailedEncrypt == last' # last /\ last'.how = "encrypt"

\* this step is an end() call on recording span s of a token-configured
\* tracer that fills the buffer to batchSize
FillingEnd(s) ==
  /\ s \in DOMAIN spans
  /\ spans[s].recording /\ ~spans'[s].recording
  /\ token
  /\ Len(spanBuffer) + 1 >= batchSize

\* the flushes that reached their fetch in this step
NewFlights == { f \in inflight' : f.enq = << >> /\ f \notin inflight }

\* this step is the call of destroy()
DestroyCalled == destroyed.st = "none" /\ destroyed'.st # "none"

\* --------------------------------------------------------------- claim C1
\* C1: with a token, under every interleaving of end(), flushes and network
\* completions, the record of every ended span is in exactly one place: the
\* pending buffer, one in-flight batch, or once among the delivered records.
C1_ExactlyOnePlace ==
  token => \A s \in DOMAIN spans :
             /\ Places(s) = IF Ended(s) THEN 1 ELSE 0
             /\ delivered[s] <= 1

\* two flushes are in flight at once, each with its own batch
C1_Witness == token /\ Cardinality(inflight) = 2

\* --------------------------------------------------------------- claim C2
\* C2 as stated: after a failed flush the buffer is the batch followed by
\* exactly the records enqueued while the call was in flight.
C2_Original ==
  [][ /\ \A f \in inflight :
           FailedSettle(f) => spanBuffer' = f.batch \o f.enq
      /\ (FailedEncrypt /\ ~Did("end")) => spanBuffer' = spanBuffer ]_vars

\* C2 amended: after a failed flush the buffer is the batch, in its order,
\* followed by the buffer as it stood when the call settled (after an
\* encryption error, which no other step can overlap: the batch alone).
C2_RequeuePrepends ==
  [][ /\ \A f \in inflight :
           FailedSettle(f) => spanBuffer' = f.batch \o spanBuffer
      /\ (FailedEncrypt /\ ~Did("end")) => spanBuffer' = spanBuffer
      /\ (FailedEncrypt /\ Did("end")) =>
           \E s \in DOMAIN spans :
             spanBuffer' = Append(spanBuffer, toData(spans'[s])) ]_vars

\* a POST failed after a span was ended during the call, and the buffer is
\* the batch followed by that span's record
C2_Witness ==
  /\ last.op = "settle" /\ last.how = "notok" /\ last.enq = 1
  /\ Len(spanBuffer) = 2 /\ inflight = {}

\* --------------------------------------------------------------- claim C3
\* C3 as stated: once destroy() has resolved, every span ended before the
\* call has been delivered and none is in the pending buffer.
C3_Original ==
  (token /\ destroyed.st = "resolved") =>
     \A s \in destroyed.ended : delivered[s] = 1 /\ Occ(spanBuffer, s) = 0

\* C3 amended: when destroy() resolves, every record that was pending at the
\* call has been delivered if the final POST was answered ok, and is back in
\* the pending buffer otherwise.
C3_FinalFlush ==
  [][ (destroyed.st # "resolved" /\ destroyed'.st = "resolved") =>
        /\ \A f \in inflight :
             (f.origin = "destroy" /\ Settled(f) /\ ~FailedSettle(f)) =>
                \A i \in 1..Len(f.batch) :
                   /\ delivered'[f.batch[i].spanId] = 1
                   /\ Occ(spanBuffer', f.batch[i].spanId) = 0
        /\ \A f \in inflight :
             (f.origin = "destroy" /\ FailedSettle(f)) =>
                \A i \in 1..Len(f.batch) :
                   /\ delivered'[f.batch[i].spanId] = 0
                   /\ Occ(spanBuffer', f.batch[i].spanId) = 1
        /\ DestroyCalled =>
             /\ spanBuffer' = spanBuffer
             /\ token => publicKey = "throws" \/ spanBuffer = << >>
    ]_vars

\* destroy() resolved after its POST failed, the batch is pending again
C3_Witness ==
  /\ destroyed.st = "resolved" /\ destroyed.how = "throw"
  /\ last.op = "settle" /\ last.origin = "destroy"
  /\ Len(spanBuffer) = 2 /\ destroyed.ended = {1, 2}

\* --------------------------------------------------------------- claim C4
\* C4: destroy() cancels the timer, so no timer flush starts after the call;
\* it runs flush() once on the whole pending buffer; its promise resolves
\* only after the POST of that flush has settled.
C4_Destroy ==
  [][ /\ destroyed.st # "none" =>
           ~flushTimer /\ ~(Did("flush") /\ last'.origin = "timer")
      /\ DestroyCalled =>
           /\ ~flushTimer'
           /\ IF token /\ spanBuffer # << >> /\ publicKey # "throws"
              THEN /\ inflight' = inflight \cup
                        { [ batch |-> spanBuffer, origin |-> "destroy",
                            enq |-> << >> ] }
                   /\ destroyed'.st = "pending"
              ELSE inflight' = inflight /\ destroyed'.st = "resolved"
      /\ destroyed'.st = "resolved" =>
           \A f \in inflight' : f.origin # "destroy"
      /\ destroyed'.st = "pending" =>
           \E f \in inflight' : f.origin = "destroy"
    ]_vars

\* destroy() resolved when its own POST was answered
C4_Witness ==
  /\ destroyed.st = "resolved" /\ destroyed.how = "ok"
  /\ last.op = "settle" /\ last.origin = "destroy"
  /\ ~flushTimer

\* --------------------------------------------------------------- claim C5
\* C5: whatever the outcome of the POST or of the encryption, end() returns
\* normally and the promises of flush() and destroy() never reject.
C5_NoRejection ==
  /\ last.result \notin {"rejected", "threw"}
  /\ last.op = "end" => last.result = "returned"
  /\ destroyed.st # "rejected"

\* the POST of destroy()'s flush threw and destroy() resolved
C5_Witness ==
  /\ last.op = "settle" /\ last.how = "throw" /\ last.origin = "destroy"
  /\ last.result = "resolved" /\ destroyed.st = "resolved"

\* --------------------------------------------------------------- claim C6
\* C6: flush() without a token or with an empty buffer issues no POST and
\* leaves the buffer, the active-span registry and the timer unchanged.
C6_FlushNoop ==
  [][ (Did("flush") /\ (~token \/ spanBuffer = << >>)) =>
        /\ UNCHANGED << spanBuffer, activeSpans, flushTimer, inflight >>
        /\ last'.how = "noop" /\ last'.result = "resolved" ]_vars

\* flush() was called on a token-configured tracer with an empty buffer
\* while a span was active
C6_Witness ==
  /\ last.op = "flush" /\ last.how = "noop"
  /\ token /\ spanBuffer = << >> /\ activeSpans # << >>

\* --------------------------------------------------------------- claim C7
\* C7: a non-empty buffer, a flush() whose POST fails, then a second flush()
\* whose POST succeeds, with no span ended in between: the buffer is empty,
\* two POSTs were issued and the second carried the batch of the first.
C7_FlushRetry ==
  scn.st = "done" =>
    /\ spanBuffer = << >>
    /\ inflight = {}
    /\ scn.posts = 2
    /\ scn.b2 = scn.b1
    /\ \A i \in 1..Len(scn.b1) : delivered[scn.b1[i].spanId] = 1

\* the retry delivered a batch of two records
C7_Witness == scn.st = "done" /\ Len(scn.b1) = 2 /\ scn.b2 = scn.b1

\* --------------------------------------------------------------- claim C8
\* C8 as stated: an end() that fills the buffer to batchSize swaps the whole
\* buffer out into exactly one POST and returns while it is in flight.
C8_Original ==
  [][ \A s \in DOMAIN spans :
        FillingEnd(s) =>
          /\ spanBuffer' = << >>
          /\ NewFlights =
               { [ batch |-> Append(spanBuffer, toData(spans'[s])),
                   origin |-> "threshold", enq |-> << >> ] }
          /\ last'.op = "end" /\ last'.result = "returned" ]_vars

\* C8 amended: as stated unless encrypting the payload throws; then flush()
\* is still run inside end() but issues no POST and the whole buffer,
\* the new record included, stays pending.
C8_ThresholdFlush ==
  [][ \A s \in DOMAIN spans :
        FillingEnd(s) =>
          LET all == Append(spanBuffer, toData(spans'[s]))
          IN /\ last'.op = "end" /\ last'.result = "returned"
             /\ IF publicKey # "throws"
                THEN /\ spanBuffer' = << >>
                     /\ NewFlights =
                          { [ batch |-> all, origin |-> "threshold",
                              enq |-> << >> ] }
                ELSE /\ spanBuffer' = all
                     /\ NewFlights = {}
                     /\ last'.how = "encrypt" ]_vars

\* an end() posted more records than batchSize: requeued ones went along
C8_Witness ==
  /\ last.op = "end" /\ last.how = "posted"
  /\ \E f \in inflight : Len(f.batch) > batchSize /\ f.origin = "threshold"
  /\ spanBuffer = << >>

C10_FrozenAfterEnd ==
  [][ \A s \in DOMAIN spans :
        ~isRecording(spans[s]) =>
           /\ toData(spans'[s]) = toData(spans[s])
           /\ ~isRecording(spans'[s]) ]_vars

\* a mutator was called on a span that had ended with data on it
C10_Witness ==
  /\ last.op \in {"setStatus", "setAttribute", "setAttributes", "addEvent"}
  /\ \A s \in DOMAIN spans : ~isRecording(spans[s])
  /\ \E s \in DOMAIN spans : toData(spans[s]).attributes # Absent

\* -------------------------------------------------------------- claim C11
\* C11: end() is idempotent: a second or later end() call, with whatever
\* endTime argument, leaves toData() as the first call left it and endTime
\* keeps the value of the first call.
C11_EndIdempotent ==
  [][ \A s \in DOMAIN spans :
        (Did("end") /\ ~isRecording(spans[s])) =>
           /\ spans'[s].endTime = spans[s].endTime
           /\ toData(spans'[s]) = toData(spans[s]) ]_vars

\* end() was called again with another endTime than the first call's
C11_Witness ==
  /\ last.op = "end" /\ last.how = "noop" /\ last.origin = "other"
  /\ \E s \in DOMAIN spans : spans[s].endTime = Now /\ ~isRecording(spans[s])

\* -------------------------------------------------------------- claim C12
\* C12: the completion callback runs on the first end() call only: with a
\* token, the step that ends a span creates exactly one record of it, and no
\* later step, further end() calls included, creates another.
C12_OneRecordPerSpan ==
  [][ token =>
        \A s \in DOMAIN spans :
          /\ (isRecording(spans[s]) /\ ~isRecording(spans'[s])) =>
                Places(s) = 0 /\ Places(s)' = 1
          /\ ~isRecording(spans[s]) => Places(s)' = Places(s)
          /\ (Did("end") /\ spans' = spans) =>
                UNCHANGED << spanBuffer, inflight >>
    ]_vars

\* end() was called again on a span whose record is in the pending buffer
C12_Witness ==
  /\ token /\ last.op = "end" /\ last.how = "noop"
  /\ \E s \in DOMAIN spans : Ended(s) /\ Occ(spanBuffer, s) = 1

\* -------------------------------------------------------------- claim C13
\* C13 as stated: a SpanData object returned by toData() reads the same
\* whatever is done to the span afterwards.
C13_SnapshotImmutable ==
  \A sn \in snapshot : Observed(sn) = sn.taken

\* -------------------------------------------------------------- claim C14
\* C14: after any sequence of operations, toData() has no attributes field
\* exactly when no attribute was given at construction or set while recording,
\* no events field exactly when no event was added while recording, and it
\* never carries an empty attributes map or an empty events list.
C14_NoEmptyContainers ==
  \A s \in DOMAIN spans :
    LET d == toData(spans[s])
    IN /\ d.attributes = Absent <=> s \notin history.attrs
       /\ d.events = Absent <=> s \notin history.events
       /\ d.attributes # { {} }
       /\ d.events # { << >> }

\* setAttribute was called on an ended span that has an event and no attribute
C14_Witness ==
  /\ last.op = "setAttribute"
  /\ \E s \in DOMAIN spans :
       /\ ~isRecording(spans[s])
       /\ toData(spans[s]).attributes = Absent
       /\ toData(spans[s]).events # Absent

\* -------------------------------------------------------------- claim C15
\* C15: a span started with options.parent = P has P's traceId and P's
\* spanId as parentSpanId; a span started without a parent has a traceId no
\* earlier span or received context carries and toData().parentSpanId null;
\* so a span and the span its parentSpanId names share their traceId.
C15_ParentChild ==
  \A s \in DOMAIN spans :
    /\ \A P \in history.parent[s] :
          /\ spans[s].traceId = P.traceId
          /\ spans[s].parentSpanId = P.spanId
          /\ toData(spans[s]).parentSpanId = P.spanId
    /\ history.parent[s] = Absent =>
          /\ \A r \in 1..(s - 1) : spans[r].traceId # spans[s].traceId
          /\ spans[s].traceId # RemoteContext.traceId
          /\ toData(spans[s]).parentSpanId = NullId
    /\ \A r \in DOMAIN spans :
          spans[s].parentSpanId = spans[r].spanId =>
             spans[s].traceId = spans[r].traceId

\* a chain of three spans under the traceId of its root; the middle one has
\* ended, the last is still recording
C15_Witness ==
  /\ Len(spans) = 3
  /\ spans[2].parentSpanId = 1 /\ spans[3].parentSpanId = 2
  /\ spans[3].traceId = 1
  /\ ~isRecording(spans[2]) /\ spans[3].endTime = NoTime

\* -------------------------------------------------------------- claim C16
\* C16: in every reachable state the active-span registry holds exactly the
\* spans started by a tracer and not yet ended, each once: a span is in the
\* registry if and only if it is recording.
C16_RegistryIsRecording ==
  /\ Range(activeSpans) = { s \in DOMAIN spans : isRecording(spans[s]) }
  /\ Cardinality(Range(activeSpans)) = Len(activeSpans)

\* the registry holds a span of each tracer around an ended one
C16_Witness ==
  /\ activeSpans = << 1, 3 >>
  /\ spans[1].onEnd = "other" /\ spans[3].onEnd = "this"
  /\ ~isRecording(spans[2])

\* -------------------------------------------------------------- claim C17
\* C17: getCurrentSpan(), getCurrentContext() and inject() resolve the
\* current span as the most recently started span still active, whichever
\* tracer started it; when the current span ends, the most recently started
\* of the remaining active spans is current.
C17_CurrentSpan ==
  [][ /\ Did("getCurrentSpan") => returned'.span = MostRecentActive
      /\ Did("getCurrentContext") =>
            returned'.context = { Context(spans[s]) : s \in MostRecentActive }
      /\ Did("inject") =>
            \A s \in MostRecentActive :
               returned'.carrier =
                  { h \in returned'.arg : h[1] # "traceparent" } \cup
                  { << "traceparent",
                       << "00", spans[s].traceId, spans[s].spanId, "01" >> >> }
      /\ \A s \in MostRecentActive :
            ~isRecording(spans'[s]) =>
               getCurrentSpan(activeSpans') = MostRecentActive'
    ]_vars

\* after the two later spans ended, getCurrentSpan() returned the first
\* span, which the other tracer had started
C17_Witness ==
  /\ last.op = "getCurrentSpan" /\ returned.span = {1}
  /\ Len(spans) = 3 /\ spans[1].onEnd = "other" /\ spans[3].onEnd = "this"
  /\ ~isRecording(spans[2]) /\ ~isRecording(spans[3])

\* -------------------------------------------------------------- claim C18
\* C18: with an empty active-span registry inject(carrier) returns the
\* carrier with no header added, removed or overwritten, and
\* getCurrentContext() returns an empty object.
C18_InjectNoop ==
  [][ activeSpans = << >> =>
        /\ Did("inject") =>
              /\ returned'.carrier = returned'.arg
              /\ activeSpans' = << >>
        /\ Did("getCurrentContext") => returned'.context = Absent
    ]_vars

\* after every span had ended, inject was handed a carrier that held a
\* traceparent and returned it as it was
C18_Witness ==
  /\ last.op = "inject" /\ activeSpans = << >> /\ Len(spans) = 2
  /\ returned.arg = { << "traceparent", formatTraceparent(RemoteContext) >> }
  /\ returned.carrier = returned.arg

\* -------------------------------------------------------------- claim C19
\* C19 as stated: however fn fails with an error E, withSpan returns a
\* promise that rejects with E, and the span has ended with status error
\* and exactly one event, named exception, and has left the registry.
C19_WithSpanFailure ==
  ws.st \in {"rejected", "threw"} =>
    /\ ws.st = "rejected" /\ ws.result = ws.settled
    /\ spans[ws.span].status = "error"
    /\ spans[ws.span].events = << [ name |-> "exception" ] >>
    /\ ~isRecording(spans[ws.span])
    /\ ws.span \notin Range(activeSpans)

\* -------------------------------------------------------------- claim C20
\* C20: when fn resolves with v, withSpan resolves with v and the span has
\* status ok, no exception event, is no longer recording and was ended once:
\* it has left the registry and, with a token, has exactly one record.
C20_WithSpanSuccess ==
  ws.st = "resolved" =>
    /\ ws.result = ws.settled /\ ws.result \in Values
    /\ spans[ws.span].status = "ok"
    /\ \A i \in 1..Len(spans[ws.span].events) :
          spans[ws.span].events[i].name # "exception"
    /\ ~isRecording(spans[ws.span])
    /\ spans[ws.span].endTime = Now
    /\ ws.span \notin Range(activeSpans)
    /\ Places(ws.span) = IF token THEN 1 ELSE 0

\* withSpan resolved with fn's value; its span was started under the span
\* current at the call, and ending it filled the buffer and posted it
C20_Witness ==
  /\ ws.st = "resolved" /\ ws.result = "v2"
  /\ last.op = "withSpan.then" /\ last.how = "posted"
  /\ spans[ws.span].parentSpanId # NoId

\* ============================================================ context codec
\* A string is the sequence of its characters.

\* `"c".repeat(n)`
Rep(c, n) == [ i \in 1..n |-> c ]

\* `const VERSION = "00"`
VERSION == << "0", "0" >>

\* the digits of radix 16, in the order of their values
HexDigits ==
  << "0", "1", "2", "3", "4", "5", "6", "7", "8", "9",
     "a", "b", "c", "d", "e", "f" >>

\* the lengths in /^[0-9a-f]{32}$/, /^[0-9a-f]{16}$/ and /^[0-9a-f]{2}$/
TraceIdLength == 32

SpanIdLength == 16

FlagsLength == 2

\* `header.trim()`: the string from its first to its last character that
\* is no white space (of which headers here have the space and the tab)
trim(str) ==
  LET inked == { i \in 1..Len(str) : str[i] \notin { " ", "\t" } }
  IN  IF inked = {} THEN << >>
      ELSE SubSeq(str, CHOOSE i \in inked : \A j \in inked : i <= j,
                       CHOOSE i \in inked : \A j \in inked : i >= j)

\* `str.split(sep)` for a one-character separator: the sequence of the
\* pieces between the separators, [""] for the empty string
RECURSIVE split(_, _)
split(str, sep) ==
  IF \A i \in 1..Len(str) : str[i] # sep
    THEN << str >>
    ELSE LET i == CHOOSE k \in 1..Len(str) :
                    str[k] = sep /\ \A j \in 1..(k - 1) : str[j] # sep
         IN  << SubSeq(str, 1, i - 1) >>
               \o split(SubSeq(str, i + 1, Len(str)), sep)

\* the digit test without the length
IsLowerHexOfAnyLength(str, n) ==
  \A i \in 1..Len(str) : str[i] \in Range(HexDigits)

\* `/^[0-9a-f]{n}$/.test(str)`
IsLowerHex(str, n) ==
  Len(str) = n /\ \A i \in 1..Len(str) : str[i] \in Range(HexDigits)

\* `parseInt(str, 16)` of a string of lowercase hex digits
RECURSIVE parseInt16(_)
parseInt16(str) ==
  IF Len(str) = 0 THEN 0
  ELSE 16 * parseInt16(SubSeq(str, 1, Len(str) - 1))
         + (CHOOSE i \in 1..16 : HexDigits[i] = str[Len(str)]) - 1

\* `n.toString(16)` of a natural number
RECURSIVE toString16(_)
toString16(n) ==
  IF n < 16 THEN << HexDigits[n + 1] >>
  ELSE toString16(n \div 16) \o << HexDigits[(n % 16) + 1] >>

\* no padding at all
padStartNone(str, n, c) == str

\* `str.padStart(n, c)`
padStart(str, n, c) ==
  IF Len(str) >= n THEN str ELSE Rep(c, n - Len(str)) \o str

\* parseTraceparent(header): Absent for null, else {SpanContext}
parseTraceparent(header) ==
  IF Len(header) = 0 THEN Absent
  ELSE
    LET parts == split(trim(header), "-") IN
    IF Len(parts) # 4 THEN Absent
    ELSE
      LET version == parts[1]
          traceId == parts[2]
          spanId  == parts[3]
          flags   == parts[4]
      IN
      IF version # VERSION THEN Absent
      ELSE IF \/ ~IsLowerHex(traceId, TraceIdLength)
              \/ traceId = Rep("0", TraceIdLength) THEN Absent
      ELSE IF \/ ~IsLowerHex(spanId, SpanIdLength)
              \/ spanId = Rep("0", SpanIdLength) THEN Absent
      ELSE IF ~IsLowerHex(flags, FlagsLength) THEN Absent
      ELSE { [ traceId |-> traceId, spanId |-> spanId,
               traceFlags |-> parseInt16(flags) ] }

\* formatTraceparent(context) as the characters of the header
formatTraceparentText(context) ==
  LET flags == padStart(toString16(context.traceFlags), FlagsLength, "0")
  IN  VERSION \o << "-" >> \o context.traceId \o << "-" >>
        \o context.spanId \o << "-" >> \o flags

\* ---- the headers and contexts the codec is called with
\* parseTraceparent(h); the codec keeps no state, so a behaviour that hands
\* it one input and then feeds the result back covers every call
ParseTraceparent(h) ==
  /\ codec.op = "none"
  /\ codec' = [ NoCodecCall EXCEPT !.op = "parse", !.header = { h },
                                !.parsed = parseTraceparent(h) ]

\* formatTraceparent(c)
FormatTraceparent(c) ==
  /\ codec.op = "none"
  /\ codec' = [ NoCodecCall EXCEPT !.op = "format", !.context = { c },
                                !.formatted = { formatTraceparentText(c) } ]

\* formatTraceparent(parseTraceparent(h)), for the h of the call before
FormatParsed ==
  /\ codec.op = "parse" /\ codec.parsed # Absent
  /\ codec' = [ codec EXCEPT
       !.op = "parse-format",
       !.formatted = { formatTraceparentText(c) : c \in codec.parsed } ]

\* parseTraceparent(formatTraceparent(c)), for the c of the call before
ParseFormatted ==
  /\ codec.op = "format"
  /\ codec' = [ codec EXCEPT
       !.op = "format-parse",
       !.parsed = UNION { parseTraceparent(h) : h \in codec.formatted } ]

\* trace ids: two valid ones, the all-zero one, a short and a long one, one
\* with an uppercase digit, one with a letter that is no hex digit; span ids
\* and flags alike; headers with white space around them, with three and
\* with five segments, and the empty one
\* contexts handed to formatTraceparent: ids of any of the texts above, and
\* flags of which the last does not fit one byte
NextCodec ==
  /\ \/ \E h \in
            LET traceIds == { Rep("a", 32), << "1" >> \o Rep("0", 31), Rep("0", 32),
                              Rep("a", 31), Rep("a", 33), Rep("a", 31) \o << "A" >>,
                              Rep("a", 31) \o << "g" >> }
                spanIds  == { Rep("b", 16), Rep("0", 15) \o << "7" >>, Rep("0", 16),
                              Rep("b", 15), Rep("b", 15) \o << "B" >> }
                versions == { VERSION, << "0", "1" >>, << "0" >> }
                flags    == { << "0", "0" >>, << "0", "1" >>, << "0", "a" >>,
                              << "f", "f" >>, << "1" >>, << "0", "0", "1" >>,
                              << "F", "F" >>, << "0", "g" >> }
                paddings == { << >>, << " " >>, << "\t" >> }
                three    == VERSION \o << "-" >> \o Rep("a", 32) \o << "-" >>
                              \o Rep("b", 16)
            IN
            { lead \o v \o << "-" >> \o Rep("a", 32) \o << "-" >> \o Rep("b", 16)
                \o << "-" >> \o f \o trail :
                lead \in paddings, v \in versions, f \in flags, trail \in paddings }
            \cup
            { VERSION \o << "-" >> \o t \o << "-" >> \o sp \o << "-" >> \o f :
                t \in traceIds, sp \in spanIds, f \in flags }
            \cup
            { << >>, << " " >>, << "i", "n", "v", "a", "l", "i", "d" >>, three,
              three \o << "-", "0", "1", "-", "x" >>,
              three \o << "-", "0", "1", "-" >> } :
          ParseTraceparent(h)
     \/ \E c \in
            [ traceId : { Rep("a", 32), << "1" >> \o Rep("0", 31), Rep("0", 32),
                          Rep("a", 31), Rep("a", 33), Rep("a", 31) \o << "A" >>,
                          Rep("a", 31) \o << "g" >> },
              spanId : { Rep("b", 16), Rep("0", 15) \o << "7" >>, Rep("0", 16),
                         Rep("b", 15), Rep("b", 15) \o << "B" >> },
              traceFlags : { 0, 1, 10, 16, 255, 256 } ] :
          FormatTraceparent(c)
     \/ FormatParsed
     \/ ParseFormatted
  /\ UNCHANGED << configVars, apiVars, flushTimer, spans, activeSpans,
                  spanBuffer, inflight, delivered, destroyed, netUp, last,
                  scn, calls, metrics, logger >>

SpecCodec == InitSpan /\ [][NextCodec]_vars

\* -------------------------------------------------------------- claim C21
\* C21: header round trip. For every well-formed header h (version 00, a
\* trace id of 32 lowercase hex digits that is not all zero, a span id of 16
\* lowercase hex digits that is not all zero, 2 lowercase hex digits of
\* flags) formatTraceparent(parseTraceparent(h)) is h; and for every context
\* c with valid ids and traceFlags in 0..255, parseTraceparent of
\* formatTraceparent(c) has the traceId, spanId and traceFlags of c.
C21_HeaderRoundTrip ==
  LET lower(str) == \A i \in 1..Len(str) : str[i] \in Range(HexDigits)
      zero(str)  == \A i \in 1..Len(str) : str[i] = "0"
      wellFormed(h) ==
        /\ Len(h) = 55
        /\ h[1] = "0" /\ h[2] = "0"
        /\ h[3] = "-" /\ h[36] = "-" /\ h[53] = "-"
        /\ lower(SubSeq(h, 4, 35)) /\ ~zero(SubSeq(h, 4, 35))
        /\ lower(SubSeq(h, 37, 52)) /\ ~zero(SubSeq(h, 37, 52))
        /\ lower(SubSeq(h, 54, 55))
      valid(c) ==
        /\ Len(c.traceId) = 32 /\ lower(c.traceId) /\ ~zero(c.traceId)
        /\ Len(c.spanId) = 16 /\ lower(c.spanId) /\ ~zero(c.spanId)
        /\ c.traceFlags \in 0..255
  IN
  /\ \A h \in codec.header :
       wellFormed(h) =>
         /\ codec.parsed # Absent
         /\ codec.op = "parse-format" => codec.formatted = { h }
  /\ \A c \in codec.context :
       (codec.op = "format-parse" /\ valid(c)) => codec.parsed = { c }

\* a context whose flags need the zero padding went through format and parse
C21_Witness ==
  /\ codec.op = "format-parse"
  /\ \E c \in codec.context :
       /\ c.traceFlags = 10
       /\ c.traceId = << "1" >> \o Rep("0", 31)
       /\ codec.parsed = { c }
       /\ codec.formatted # Absent

\* -------------------------------------------------------------- claim C22
\* C22 as stated, on the header as given: parseTraceparent returns null for
\* every header whose "-"-separated segments are not 4, whose version is not
\* 00, whose trace id is not 32 lowercase hex digits or is all zero, whose
\* span id is not 16 lowercase hex digits or is all zero, or whose flags are
\* not exactly 2 hex digits.
C22_RejectsAsGiven ==
  LET lower(str) == \A i \in 1..Len(str) : str[i] \in Range(HexDigits)
      anyCase(str) ==
        \A i \in 1..Len(str) :
          str[i] \in Range(HexDigits) \cup { "A", "B", "C", "D", "E", "F" }
      zero(str)  == \A i \in 1..Len(str) : str[i] = "0"
      violates(h) ==
        LET parts == split(h, "-") IN
        \/ Len(parts) # 4
        \/ parts[1] # << "0", "0" >>
        \/ Len(parts[2]) # 32 \/ ~lower(parts[2]) \/ zero(parts[2])
        \/ Len(parts[3]) # 16 \/ ~lower(parts[3]) \/ zero(parts[3])
        \/ Len(parts[4]) # 2 \/ ~anyCase(parts[4])
  IN \A h \in codec.header :
       (codec.op = "parse" /\ violates(h)) => codec.parsed = Absent

\* C22, amended: the conditions are those of the header with its leading and
\* trailing whitespace removed. parseTraceparent returns null for every
\* header that, so stripped, has a segment count other than 4, a version
\* other than 00, a trace id that is not 32 lowercase hex digits or is all
\* zero, a span id that is not 16 lowercase hex digits or is all zero, or
\* flags that are not exactly 2 hex digits; a context it returns carries
\* the trace id and span id segments and the value of the flags.
C22_RejectsStripped ==
  LET lower(str) == \A i \in 1..Len(str) : str[i] \in Range(HexDigits)
      anyCase(str) ==
        \A i \in 1..Len(str) :
          str[i] \in Range(HexDigits) \cup { "A", "B", "C", "D", "E", "F" }
      zero(str)  == \A i \in 1..Len(str) : str[i] = "0"
      inked(h) == { i \in 1..Len(h) : h[i] \notin { " ", "\t" } }
      stripped(h) ==
        IF inked(h) = {} THEN << >>
        ELSE SubSeq(h, CHOOSE i \in inked(h) : \A j \in inked(h) : i <= j,
                       CHOOSE i \in inked(h) : \A j \in inked(h) : i >= j)
      violates(t) ==
        LET parts == split(t, "-") IN
        \/ Len(parts) # 4
        \/ parts[1] # << "0", "0" >>
        \/ Len(parts[2]) # 32 \/ ~lower(parts[2]) \/ zero(parts[2])
        \/ Len(parts[3]) # 16 \/ ~lower(parts[3]) \/ zero(parts[3])
        \/ Len(parts[4]) # 2 \/ ~anyCase(parts[4])
  IN \A h \in codec.header :
       codec.op = "parse" =>
         /\ violates(stripped(h)) => codec.parsed = Absent
         /\ \A c \in codec.parsed :
              LET parts == split(stripped(h), "-") IN
              /\ c.traceId = parts[2] /\ c.spanId = parts[3]
              /\ c.traceFlags \in 0..255
              /\ padStart(toString16(c.traceFlags), 2, "0") = parts[4]

\* a header with an all-zero trace id and nothing else wrong was rejected
C22_Witness ==
  /\ codec.op = "parse" /\ codec.parsed = Absent
  /\ \E h \in codec.header :
       /\ Len(h) = 55
       /\ SubSeq(h, 1, 36) = VERSION \o << "-" >> \o Rep("0", 32) \o << "-" >>
       /\ SubSeq(h, 37, 55) = Rep("b", 16) \o << "-", "0", "1" >>

\* ====================================================== tracing middleware
\* the number of requests, of res.end calls and of error events
MaxRequests == 2

MaxResEnds == 3

MaxErrors == 1

\* `ignoreRoutes.some((route) => req.path.startsWith(route))`, for
\* ignoreRoutes ["/h"]
Ignored(path) ==
  \E route \in { << "/", "h" >> } :
    Len(route) <= Len(path) /\ SubSeq(path, 1, Len(route)) = route

\* a valid traceparent header
RemoteHeader ==
  VERSION \o << "-" >> \o Rep("a", 32) \o << "-" >> \o Rep("b", 16)
    \o << "-", "0", "1" >>

\* `carrier[name]`, the empty string standing for undefined as well: both
\* are falsy
HeaderValue(carrier, name) ==
  IF \E kv \in carrier : kv[1] = name
    THEN (CHOOSE kv \in carrier : kv[1] = name)[2] ELSE << >>

\* only the canonical header name is looked up
extractCanonical(carrier) ==
  parseTraceparent(HeaderValue(carrier, "traceparent"))

\* extractContext(carrier): Absent for null, else {SpanContext}
extractContext(carrier) ==
  LET traceparent ==
        IF Len(HeaderValue(carrier, "traceparent")) > 0
          THEN HeaderValue(carrier, "traceparent")
        ELSE IF Len(HeaderValue(carrier, "Traceparent")) > 0
          THEN HeaderValue(carrier, "Traceparent")
        ELSE HeaderValue(carrier, "TRACEPARENT")
  IN  IF Len(traceparent) = 0 THEN Absent
      ELSE parseTraceparent(traceparent)

\* Span and trace ids are opaque names. Those generated in this process are
\* numbered from 1, and the hex string that generateTraceId() (length 32) or
\* generateSpanId() (length 16) returned for the n-th of them is fresh, so
\* none of the strings other processes send; an id that arrives in a header
\* is numbered 100 + its place in the list of the ids the headers here hold.
IdText(n, length) ==
  LET remoteIds == << Rep("a", 32), << "1" >> \o Rep("0", 31),
                      Rep("b", 16), Rep("0", 15) \o << "7" >> >>
  IN  IF n > 100 THEN remoteIds[n - 100]
      ELSE Rep("c", length - 1) \o << HexDigits[n + 1] >>

\* the name of the id a string is
IdOf(text) ==
  CHOOSE n \in (1..15) \cup (101..104) : IdText(n, Len(text)) = text

\* `res.statusCode > 400`
IsErrorAbove(code) == code > 400

\* `res.statusCode >= 400`
IsError(code) == code >= 400

\* the middleware function called with a request, req.path and req.headers:
\* `parent: parentContext || undefined`, of which startSpan reads the ids
Middleware(path, headers) ==
  /\ Len(http.reqs) < MaxRequests
  /\ IF Ignored(path)
     THEN /\ http' = [ reqs |-> Append(http.reqs,
                         [ span |-> NoId, next |-> 1, ends |-> 0,
                           errors |-> 0 ]),
                       path |-> path, headers |-> headers,
                       code |-> http.code ]
          /\ last' = Call("middleware", "-", "-", "returned")
          /\ UNCHANGED outsideVars
          /\ UNCHANGED << configVars, snapshot, history, returned, ws,
                          flushTimer, spans, activeSpans, spanBuffer,
                          inflight, delivered, destroyed, netUp, scn,
                          calls >>
     ELSE /\ StartSpanWith(MaxRequests,
                           { [ traceId |-> IdOf(c.traceId),
                               spanId |-> IdOf(c.spanId) ] :
                               c \in extractContext(headers) },
                           { << "http.method", "GET" >> }, "this")
          /\ http' = [ reqs |-> Append(http.reqs,
                         [ span |-> Len(spans) + 1, next |-> 1,
                           ends |-> 0, errors |-> 0 ]),
                       path |-> path, headers |-> headers,
                       code |-> http.code ]

\* the res.end calls (field "ends") or error events (field "errors") of all
\* requests so far
TotalOf(field) ==
  LET RECURSIVE sum(_)
      sum(n) == IF n = 0 THEN 0 ELSE http.reqs[n][field] + sum(n - 1)
  IN  sum(Len(http.reqs))

\* res.end() of traced request r while res.statusCode is code: the wrapper
\* the middleware installed, which calls the original end
ResEnd(r, code) ==
  /\ r \in DOMAIN http.reqs
  /\ http.reqs[r].span # NoId
  /\ TotalOf("ends") < MaxResEnds
  /\ LET s == http.reqs[r].span
         sp1 == setAttribute(spans[s], "http.status_code", code)
         sp2 == IF IsError(code) THEN setStatus(sp1, "error", "HTTP")
                ELSE setStatus(sp1, "ok", Undefined)
     IN  /\ EndAs("res.end", s, Now, sp2)
         /\ history' = [ history EXCEPT
              !.attrs = IF isRecording(spans[s]) THEN @ \cup {s} ELSE @ ]
  /\ http' = [ http EXCEPT !.reqs[r].ends = @ + 1, !.code = code ]
  /\ UNCHANGED << snapshot, returned, ws, logger >>

\* the "error" event of the response of traced request r
ResError(r) ==
  /\ r \in DOMAIN http.reqs
  /\ http.reqs[r].span # NoId
  /\ TotalOf("errors") < MaxErrors
  /\ LET s == http.reqs[r].span
     IN  /\ spans' = [ spans EXCEPT
              ![s] = addEvent(setStatus(@, "error", "msg"), "exception") ]
         /\ history' = [ history EXCEPT
              !.events = IF isRecording(spans[s]) THEN @ \cup {s} ELSE @ ]
  /\ http' = [ http EXCEPT !.reqs[r].errors = @ + 1 ]
  /\ last' = Call("res.error", "-", "-", "returned")
  /\ UNCHANGED outsideVars
  /\ UNCHANGED << configVars, snapshot, returned, ws, flushTimer,
                  activeSpans, spanBuffer, inflight, delivered, destroyed,
                  netUp, scn, calls >>

\* requests of every path and with every header through the middleware,
\* and their completion
\* `req.headers`: no propagation header, or one: under the canonical name a
\* valid value, one padded with white space, malformed ones or the empty
\* string; or the valid value under another spelling of the name
NextMiddleware ==
  \/ \E path \in { << "/", "h", "i" >>, << "/", "a" >>, << "/" >> },
        headers \in
          LET texts ==
                { RemoteHeader,
                  << " " >> \o VERSION \o << "-" >> \o << "1" >> \o Rep("0", 31)
                    \o << "-" >> \o Rep("0", 15) \o << "7" >> \o << "-", "0", "0" >>,
                  VERSION \o << "-" >> \o Rep("0", 32) \o << "-" >> \o Rep("b", 16)
                    \o << "-", "0", "1" >>,
                  VERSION \o << "-" >> \o Rep("a", 32) \o << "-" >> \o Rep("b", 16),
                  << "i", "n", "v", "a", "l", "i", "d" >>,
                  << >> }
          IN  { {} }
              \cup { { << "traceparent", h >> } : h \in texts }
              \cup { { << n, RemoteHeader >> } :
                       n \in { "traceparent", "Traceparent", "TRACEPARENT" } } :
       Middleware(path, headers)
  \/ \E r \in 1..MaxRequests : ResEnd(r, 200)

SpecMiddleware == InitSpan /\ [][NextMiddleware]_vars

\* traced requests, their responses with every status code, and response
\* errors
NextResponse ==
  \/ \E headers \in { {}, { << "traceparent", RemoteHeader >> } } :
       Middleware(<< "/", "a" >>, headers)
  \/ \E r \in 1..MaxRequests, code \in { 399, 400 } : ResEnd(r, code)
  \/ \E r \in 1..MaxRequests : ResError(r)

SpecResponse == InitSpan /\ [][NextResponse]_vars

\* -------------------------------------------------------------- claim C23
\* C23: a malformed or absent propagation header never rejects a request.
\* For every request the middleware calls next(); for every request whose
\* path has none of the ignored prefixes it starts a span; if the request
\* has no traceparent header or one that does not parse, the span is a new
\* trace root (a trace id no earlier span has, no parent span id), otherwise
\* it is a child of the context the header holds.
C23_HeaderNeverRejects ==
  [][ Len(http'.reqs) = Len(http.reqs) + 1 =>
        LET r == http'.reqs[Len(http'.reqs)]
            path == http'.path
            ignored == Len(path) >= 2 /\ path[1] = "/" /\ path[2] = "h"
            given == { kv[2] : kv \in http'.headers }
            ctx == UNION { parseTraceparent(h) : h \in given }
        IN  /\ r.next = 1
            /\ ignored => (r.span = NoId /\ spans' = spans)
            /\ ~ignored =>
                 /\ Len(spans') = Len(spans) + 1
                 /\ r.span = Len(spans')
                 /\ isRecording(spans'[r.span])
                 /\ IF ctx = Absent
                    THEN /\ spans'[r.span].parentSpanId = NoId
                         /\ \A s \in DOMAIN spans :
                              spans[s].traceId # spans'[r.span].traceId
                    ELSE \E c \in ctx :
                           /\ spans'[r.span].traceId = IdOf(c.traceId)
                           /\ spans'[r.span].parentSpanId = IdOf(c.spanId)
    ]_vars

\* a second request, with a header that does not parse, was passed on and
\* got a root span of its own, after a first one that continued a trace
C23_Witness ==
  /\ Len(http.reqs) = 2
  /\ http.headers =
       { << "traceparent", << "i", "n", "v", "a", "l", "i", "d" >> >> }
  /\ http.reqs[2].next = 1 /\ http.reqs[2].span = 2
  /\ spans[2].parentSpanId = NoId
  /\ spans[1].parentSpanId # NoId
  /\ spans[2].traceId # spans[1].traceId

\* -------------------------------------------------------------- claim C24
\* C24: the first res.end of a traced request gives its span the
\* http.status_code attribute, status error if the status code is >= 400 and
\* ok otherwise, and ends it (once: it leaves the registry and, with a
\* token, has one record); a later res.end changes no span and adds no
\* record.
C24_ResponseCompletion ==
  [][ \A r \in DOMAIN http.reqs :
        http'.reqs[r].ends = http.reqs[r].ends + 1 =>
          LET s == http.reqs[r].span
              code == http'.code
          IN  IF http.reqs[r].ends = 0
              THEN /\ << "http.status_code", code >> \in spans'[s].attributes
                   /\ spans'[s].status = IF code >= 400 THEN "error" ELSE "ok"
                   /\ isRecording(spans[s]) /\ ~isRecording(spans'[s])
                   /\ spans'[s].endTime = Now
                   /\ s \notin Range(activeSpans')
                   /\ Places(s)' = IF token THEN 1 ELSE 0
              ELSE /\ spans' = spans
                   /\ UNCHANGED << activeSpans, spanBuffer, inflight >>
    ]_vars

\* res.end was called twice, first with status code 399 and then with 400:
\* the span kept status ok and the first code
C24_Witness ==
  \E r \in DOMAIN http.reqs :
    /\ http.reqs[r].ends = 2 /\ http.code = 400
    /\ http.reqs[r].span # NoId
    /\ spans[http.reqs[r].span].status = "ok"
    /\ << "http.status_code", 399 >> \in spans[http.reqs[r].span].attributes
    /\ Places(http.reqs[r].span) = 1

\* -------------------------------------------------------------- claim C25
\* C25: on an error event of the response of a traced request the span's
\* status becomes error and an exception event is recorded, whether or not
\* the span was already ended by res.end, and the span never has more than
\* one record.
C25_ResponseError ==
  [][ \A r \in DOMAIN http.reqs :
        http'.reqs[r].errors = http.reqs[r].errors + 1 =>
          LET s == http.reqs[r].span
          IN  /\ spans'[s].status = "error"
              /\ Len(spans'[s].events) = Len(spans[s].events) + 1
              /\ spans'[s].events[Len(spans'[s].events)].name = "exception"
              /\ Places(s)' <= 1
    ]_vars

\* ================================================================ metrics
\* the minutes the wall clock runs through, and the numbers of recordRequest
\* calls and of flush() calls
MaxMinute == 2

MaxRecords == 2

MaxFlushes == 2

\* getBucketKey(date, path, method): the minute of the date, then path and
\* method
getBucketKey(minute, path) == << minute, path >>

\* categories with the upper hundreds only
getStatusCategoryAbove(statusCode) ==
  IF statusCode > 200 /\ statusCode < 300 THEN "2xx"
  ELSE IF statusCode > 300 /\ statusCode < 400 THEN "3xx"
  ELSE IF statusCode > 400 /\ statusCode < 500 THEN "4xx"
  ELSE IF statusCode > 500 /\ statusCode < 600 THEN "5xx"
  ELSE "null"

getStatusCategory(statusCode) ==
  IF statusCode >= 200 /\ statusCode < 300 THEN "2xx"
  ELSE IF statusCode >= 300 /\ statusCode < 400 THEN "3xx"
  ELSE IF statusCode >= 400 /\ statusCode < 500 THEN "4xx"
  ELSE IF statusCode >= 500 /\ statusCode < 600 THEN "5xx"
  ELSE "null"

\* recordRequest(startTime, durationMs, {path, method, statusCode}): the
\* buckets afterwards; of the counters of a bucket, requestCount and
\* status5xx; statusCode 0: none given
recordRequest(buckets, startTime, path, statusCode) ==
  LET key == getBucketKey(startTime, path)
      bucket == IF key \in DOMAIN buckets THEN buckets[key]
                ELSE [ requestCount |-> 0, status5xx |-> 0 ]
      counted ==
        [ requestCount |-> bucket.requestCount + 1,
          status5xx |->
            IF statusCode # 0 /\ getStatusCategory(statusCode) = "5xx"
              THEN bucket.status5xx + 1 ELSE bucket.status5xx ]
  IN  [ k \in DOMAIN buckets \cup { key } |->
          IF k = key THEN counted ELSE buckets[k] ]

\* getPendingCount()
getPendingCount(buckets) ==
  LET RECURSIVE sum(_)
      sum(keys) ==
        IF keys = {} THEN 0
        ELSE LET k == CHOOSE key \in keys : TRUE
             IN  buckets[k].requestCount + sum(keys \ { k })
  IN  sum(DOMAIN buckets)

\* every key
keysOfAll(buckets, now) == DOMAIN buckets

\* the keys flush() collects at minute now:
\* `if (!key.startsWith(currentTimeKey))`
keysToDelete(buckets, now) == { key \in DOMAIN buckets : key[1] # now }

\* the `catch` branch of flush(): `if (!buckets.has(key)) buckets.set(...)`
ReAddIfAbsent(buckets, sent) ==
  [ k \in DOMAIN buckets \cup DOMAIN sent |->
      IF k \in DOMAIN buckets THEN buckets[k] ELSE sent[k] ]

\* `buckets.set(key, bucket)` whether or not the key exists
ReAddReplacing(buckets, sent) ==
  [ k \in DOMAIN buckets \cup DOMAIN sent |->
      IF k \in DOMAIN sent THEN sent[k] ELSE buckets[k] ]

\* the `!response.ok` branch of flush(): merge into an existing bucket of
\* the same key, else set
ReAddMerged(buckets, sent) ==
  [ k \in DOMAIN buckets \cup DOMAIN sent |->
      IF k \notin DOMAIN sent THEN buckets[k]
      ELSE IF k \notin DOMAIN buckets THEN sent[k]
      ELSE [ requestCount |-> buckets[k].requestCount + sent[k].requestCount,
             status5xx |-> buckets[k].status5xx + sent[k].status5xx ] ]

\* what a call or continuation leaves in metrics.last
MetricsCall(op, how) ==
  [ op |-> op, how |-> how, before |-> 0, rec |-> 0, others |-> FALSE,
    same |-> FALSE ]

\* the tracker after a recordRequest call made by operation op; every
\* request measured has path and method "/a"
Recorded(m, op, startTime, statusCode) ==
  [ m EXCEPT
      !.buckets = recordRequest(@, startTime, "/a", statusCode),
      !.flights = { [ f EXCEPT !.rec = @ + 1 ] : f \in @ },
      !.destroy.rec = IF m.destroy.st = "none" THEN 0 ELSE 1,
      !.n = @ + 1,
      !.last = MetricsCall(op, "-") ]

\* the flights, told that another call has changed the buckets
Disturbed(flights) == { [ f EXCEPT !.others = TRUE ] : f \in flights }

\* CreateMetrics({token, disabled}): `if (!disabled) flushTimer = setInterval`
CreateMetrics(disabled) ==
  /\ metrics.st = "none"
  /\ metrics' = [ NoMetrics EXCEPT !.st = "created", !.disabled = disabled,
                                   !.flushTimer = ~disabled,
                                   !.last = MetricsCall("create", "-") ]

\* a minute of wall clock time passes
Tick ==
  /\ metrics.st = "created"
  /\ metrics.clock < MaxMinute
  /\ metrics' = [ metrics EXCEPT !.clock = @ + 1,
                                 !.last = MetricsCall("tick", "-") ]

\* the calls that end in a recordRequest are counted from their start
Measuring ==
  metrics.n + Len(metrics.open)
    + (IF metrics.track.st = "pending" THEN 1 ELSE 0)

\* metrics.startRequest()
StartRequest ==
  /\ metrics.st = "created"
  /\ Measuring < MaxRecords
  /\ metrics' = [ metrics EXCEPT !.open = Append(@, metrics.clock),
                                 !.last = MetricsCall("startRequest", "-") ]

\* end({statusCode}) of the i-th open startRequest() call
EndRequest(i, statusCode) ==
  /\ metrics.st = "created"
  /\ i \in DOMAIN metrics.open
  /\ metrics' =
       [ Recorded(metrics, "end", metrics.open[i], statusCode) EXCEPT
           !.open = SubSeq(@, 1, i - 1) \o SubSeq(@, i + 1, Len(@)) ]

\* metrics.record({durationMs, statusCode, timestamp}); timestamp 0: none
\* given (`data.timestamp || new Date()`)
Record(timestamp, statusCode) ==
  /\ metrics.st = "created"
  /\ Measuring < MaxRecords
  /\ metrics' = Recorded(metrics, "record",
                         IF timestamp = 0 THEN metrics.clock ELSE timestamp,
                         statusCode)

\* metrics.trackRequest(handler) up to `await handler()`; a handler that
\* throws before it returns a promise is caught by the same `try`
TrackRequest(throws) ==
  /\ metrics.st = "created"
  /\ metrics.track.st # "pending"
  /\ Measuring < MaxRecords
  /\ metrics' =
       IF throws
       THEN [ Recorded(metrics, "trackRequest", metrics.clock, 500) EXCEPT
                !.track = [ st |-> "rejected", id |-> metrics.track.id + 1,
                            start |-> metrics.clock, settled |-> "Error",
                            result |-> "Error" ] ]
       ELSE [ metrics EXCEPT
                !.track = [ st |-> "pending", id |-> metrics.track.id + 1,
                            start |-> metrics.clock, settled |-> "-",
                            result |-> "-" ],
                !.last = MetricsCall("trackRequest", "-") ]

\* the handler's promise resolves with result, an object with a statusCode
\* ("200", "500"), one without ("{}") or no object at all: `end({statusCode:
\* result.statusCode, ...}); return result`, where reading a property of
\* undefined throws a TypeError into the `catch`
HandlerResolve(result) ==
  /\ metrics.st = "created"
  /\ metrics.track.st = "pending"
  /\ metrics' =
       IF result = "undefined"
       THEN [ Recorded(metrics, "trackRequest.catch", metrics.track.start,
                       500) EXCEPT
                !.track.st = "rejected", !.track.settled = result,
                !.track.result = "TypeError" ]
       ELSE [ Recorded(metrics, "trackRequest.then", metrics.track.start,
                       IF result = "200" THEN 200
                       ELSE IF result = "500" THEN 500 ELSE 0) EXCEPT
                !.track.st = "resolved", !.track.settled = result,
                !.track.result = result ]

\* the handler's promise rejects with err: `end({ statusCode: 500 }); throw
\* err`
HandlerReject(err) ==
  /\ metrics.st = "created"
  /\ metrics.track.st = "pending"
  /\ metrics' =
       [ Recorded(metrics, "trackRequest.catch", metrics.track.start, 500)
           EXCEPT !.track.st = "rejected", !.track.settled = err,
                  !.track.result = err ]

\* flush() up to `await fetch`, called by the application or by the
\* interval timer
MetricsFlush(origin) ==
  /\ metrics.st = "created"
  /\ origin = "timer" => metrics.flushTimer
  /\ metrics.flushes < MaxFlushes
  /\ LET keys == keysToDelete(metrics.buckets, metrics.clock)
     IN  metrics' =
           IF metrics.disabled \/ DOMAIN metrics.buckets = {} \/ keys = {}
           THEN [ metrics EXCEPT !.flushes = @ + 1,
                                 !.last = MetricsCall("flush", "returned") ]
           ELSE [ metrics EXCEPT
                    !.flushes = @ + 1,
                    !.buckets = [ k \in DOMAIN @ \ keys |-> @[k] ],
                    !.flights = Disturbed(@) \cup
                      { [ id |-> metrics.flushes + 1,
                          sent |-> [ k \in keys |-> metrics.buckets[k] ],
                          before |-> getPendingCount(metrics.buckets),
                          rec |-> 0, others |-> FALSE ] },
                    !.last = MetricsCall("flush", "posted") ]

\* what the continuation of flight f leaves in metrics.last
Settlement(op, f) ==
  [ op |-> op, how |-> "-", before |-> f.before, rec |-> f.rec,
    others |-> f.others,
    same |-> DOMAIN f.sent \cap DOMAIN metrics.buckets # {} ]

\* the POST of flight f is answered ok
MetricsFetchOk(f) ==
  /\ f \in metrics.flights
  /\ metrics' = [ metrics EXCEPT !.flights = @ \ { f },
                                 !.last = Settlement("flush.ok", f) ]

\* the POST of flight f is answered, but not ok
MetricsFetchNotOk(f) ==
  /\ f \in metrics.flights
  /\ metrics' = [ metrics EXCEPT
                    !.buckets = ReAddMerged(@, f.sent),
                    !.flights = Disturbed(@ \ { f }),
                    !.last = Settlement("flush.notok", f) ]

\* fetch of flight f throws
MetricsFetchThrow(f) ==
  /\ f \in metrics.flights
  /\ metrics' = [ metrics EXCEPT
                    !.buckets = ReAddIfAbsent(@, f.sent),
                    !.flights = Disturbed(@ \ { f }),
                    !.last = Settlement("flush.throw", f) ]

\* destroy() up to `await fetch`
MetricsDestroy ==
  /\ metrics.st = "created"
  /\ metrics.destroy.st = "none"
  /\ metrics' =
       [ metrics EXCEPT
           !.flushTimer = FALSE,
           !.buckets = [ k \in {} |-> 0 ],
           !.flights = IF DOMAIN metrics.buckets = {} THEN @
                       ELSE Disturbed(@),
           !.destroy =
             [ st |-> IF DOMAIN metrics.buckets = {} \/ metrics.disabled
                        THEN "resolved" ELSE "posted",
               rec |-> 0 ],
           !.last = MetricsCall("destroy",
                      IF DOMAIN metrics.buckets = {} \/ metrics.disabled
                        THEN "returned" ELSE "posted") ]

\* the POST of destroy() is answered, ok or not, or fetch throws: destroy
\* resolves alike
MetricsDestroySettle(how) ==
  /\ metrics.st = "created"
  /\ metrics.destroy.st = "posted"
  /\ metrics' = [ metrics EXCEPT !.destroy.st = "resolved",
                                 !.last = MetricsCall("destroy.settle", how) ]

\* the three ways of measuring a request, on an enabled or disabled tracker
NextAccounting ==
  /\ \/ \E disabled \in BOOLEAN : CreateMetrics(disabled)
     \/ Tick
     \/ StartRequest
     \/ \E i \in 1..MaxRecords, c \in { 0, 200, 500 } : EndRequest(i, c)
     \/ \E t \in 0..MaxMinute, c \in { 0, 200, 500 } : Record(t, c)
     \/ \E throws \in BOOLEAN : TrackRequest(throws)
     \/ \E result \in { "200", "500", "{}", "undefined" } :
          HandlerResolve(result)
     \/ HandlerReject("Error")
  /\ UNCHANGED << configVars, apiVars, flushTimer, spans, activeSpans,
                  spanBuffer, inflight, delivered, destroyed, netUp, last,
                  scn, calls, codec, logger >>

\* a program that configures no token and has not called CreateMetrics
InitMetrics == InitSpan /\ ~token

SpecAccounting == InitMetrics /\ [][NextAccounting]_vars

\* requests measured and requests recorded with any timestamp, beside
\* flush() and destroy() calls and the answers to their POSTs
NextMetrics ==
  /\ \/ \E disabled \in BOOLEAN : CreateMetrics(disabled)
     \/ Tick
     \/ StartRequest
     \/ \E i \in 1..MaxRecords : EndRequest(i, 200)
     \/ \E t \in 0..MaxMinute : Record(t, 200)
     \/ \E origin \in { "manual", "timer" } : MetricsFlush(origin)
     \/ \E f \in metrics.flights :
          MetricsFetchOk(f) \/ MetricsFetchNotOk(f) \/ MetricsFetchThrow(f)
     \/ MetricsDestroy
     \/ \E how \in { "ok", "not ok", "throws" } : MetricsDestroySettle(how)
  /\ UNCHANGED << configVars, apiVars, flushTimer, spans, activeSpans,
                  spanBuffer, inflight, delivered, destroyed, netUp, last,
                  scn, calls, codec, logger >>

SpecMetrics == InitMetrics /\ [][NextMetrics]_vars

\* -------------------------------------------------------------- claim C26
\* C26 as stated: when the continuation of a metrics flush() runs after a
\* non-ok response, getPendingCount() is the count before the flush plus the
\* number of requests recorded while the call was in flight.
C26_NonOkRetryAsStated ==
  [][ \A f \in metrics.flights :
        ( /\ \A g \in metrics'.flights : g.id # f.id
          /\ metrics'.last.op = "flush.notok" ) =>
          getPendingCount(metrics'.buckets) = f.before + f.rec
    ]_vars

\* C26, amended: after a non-ok response every bucket the flush took is
\* pending again, added to the bucket of the same key if requests were
\* recorded under that key meanwhile, and no other bucket changes: the
\* pending count grows by the requests of the sent buckets. It equals the
\* count before the flush plus the requests recorded while the call was in
\* flight unless another flush() or destroy() call took or re-added buckets
\* during that time.
C26_NonOkRetry ==
  [][ \A f \in metrics.flights :
        ( /\ \A g \in metrics'.flights : g.id # f.id
          /\ metrics'.last.op = "flush.notok" ) =>
          LET old == metrics.buckets
              new == metrics'.buckets
              was(k) == IF k \in DOMAIN old THEN old[k].requestCount ELSE 0
              took(k) == IF k \in DOMAIN f.sent
                           THEN f.sent[k].requestCount ELSE 0
          IN  /\ DOMAIN new = DOMAIN old \cup DOMAIN f.sent
              /\ \A k \in DOMAIN new : new[k].requestCount = was(k) + took(k)
              /\ getPendingCount(new)
                   = getPendingCount(old) + getPendingCount(f.sent)
              /\ ~f.others => getPendingCount(new) = f.before + f.rec
    ]_vars

\* a flush failed with a non-ok response after a request had been recorded
\* under the key of a bucket it had taken: the two were merged
C26_Witness ==
  /\ metrics.last.op = "flush.notok"
  /\ metrics.last.same /\ ~metrics.last.others /\ metrics.last.rec = 1
  /\ metrics.last.before = 1
  /\ getPendingCount(metrics.buckets) = 2

\* -------------------------------------------------------------- claim C27
\* C27: when the continuation of a metrics flush() runs after fetch threw,
\* and no other flush() or destroy() call touched the buckets meanwhile,
\* getPendingCount() is the count before the flush plus the number of
\* requests recorded while the call was in flight: no recorded request is
\* discarded.
C27_ThrowRetry ==
  [][ \A f \in metrics.flights :
        ( /\ \A g \in metrics'.flights : g.id # f.id
          /\ metrics'.last.op = "flush.throw"
          /\ ~f.others ) =>
          getPendingCount(metrics'.buckets) = f.before + f.rec
    ]_vars

\* -------------------------------------------------------------- claim C28
\* C28 as stated: a metrics flush() call leaves every bucket of the current
\* minute as it is; if every pending bucket is of the current minute it
\* issues no POST and changes no bucket; the buckets it sends and removes
\* are of earlier minutes.
C28_FlushAsStated ==
  [][ metrics'.flushes = metrics.flushes + 1 =>
        LET now == metrics.clock
            old == metrics.buckets
            new == metrics'.buckets
            posted == { f \in metrics'.flights : f.id = metrics'.flushes }
        IN  /\ \A k \in DOMAIN old :
                 k[1] = now => (k \in DOMAIN new /\ new[k] = old[k])
            /\ (\A k \in DOMAIN old : k[1] = now) =>
                 (posted = {} /\ new = old)
            /\ \A f \in posted : \A k \in DOMAIN f.sent : k[1] < now
            /\ \A k \in DOMAIN old \ DOMAIN new : k[1] < now
    ]_vars

\* C28, amended: a metrics flush() call leaves every bucket of the current
\* minute as it is; if every pending bucket is of the current minute, or
\* the tracker is disabled, it issues no POST and changes no bucket;
\* otherwise it removes exactly the buckets that are not of the current
\* minute, those of earlier minutes and those recorded with a timestamp of
\* a later minute alike, and sends them in one POST.
C28_FlushSparesCurrentMinute ==
  [][ metrics'.flushes = metrics.flushes + 1 =>
        LET now == metrics.clock
            old == metrics.buckets
            new == metrics'.buckets
            posted == { f \in metrics'.flights : f.id = metrics'.flushes }
            other == { k \in DOMAIN old : k[1] # now }
        IN  /\ \A k \in DOMAIN old :
                 k[1] = now => (k \in DOMAIN new /\ new[k] = old[k])
            /\ (other = {} \/ metrics.disabled) =>
                 (posted = {} /\ new = old)
            /\ (other # {} /\ ~metrics.disabled) =>
                 /\ DOMAIN new = DOMAIN old \ other
                 /\ \E f \in posted :
                      /\ posted = { f }
                      /\ DOMAIN f.sent = other
                      /\ \A k \in other : f.sent[k] = old[k]
    ]_vars

\* a flush has just sent the bucket of an earlier minute and kept the one
\* of the current minute
C28_Witness ==
  /\ metrics.last.op = "flush" /\ metrics.last.how = "posted"
  /\ \E k \in DOMAIN metrics.buckets : k[1] = metrics.clock
  /\ \E f \in metrics.flights :
       /\ f.id = metrics.flushes
       /\ \E k \in DOMAIN f.sent : k[1] < metrics.clock

\* -------------------------------------------------------------- claim C29
\* C29: once the promise of destroy() has resolved, and no request was
\* recorded after destroy() was called, getPendingCount() is 0, whatever a
\* flush() still in flight at the call does.
C29_DestroyLeavesNothing ==
  (metrics.destroy.st = "resolved" /\ metrics.destroy.rec = 0)
    => getPendingCount(metrics.buckets) = 0

MaxLoggers == 2

MaxLogCalls == 2

\* `remote?.batchSize ?? 50`
DefaultLogBatchSize == 50

\* `logBuffer = [...logBuffer, ...logsToSend]`
requeueLogsAppended(logsToSend, logBuffer) == logBuffer \o logsToSend

\* `logBuffer = [...logsToSend, ...logBuffer];`
requeueLogs(logsToSend, logBuffer) == logsToSend \o logBuffer

\* flushLogs() of logger lg from its call up to its return or its `await
\* fetch`; a throw of encryptPayload lands in the `catch`
flushLogs(lg) ==
  IF ~lg.token \/ Len(lg.logBuffer) = 0 THEN lg
  ELSE IF lg.publicKey = "throws"
  THEN [ lg EXCEPT !.logBuffer = requeueLogs(lg.logBuffer, << >>) ]
  ELSE [ lg EXCEPT !.logBuffer = << >>,
                   !.flights = @ \cup { lg.logBuffer } ]

\* queueLog(entry) of logger lg
queueLog(lg, entry) ==
  IF ~lg.token THEN lg
  ELSE LET pushed == [ lg EXCEPT !.logBuffer = Append(@, entry) ]
       IN  IF Len(pushed.logBuffer) >= lg.batchSize THEN flushLogs(pushed)
           ELSE pushed

\* the loggers whose queueLog runs when console function fn is called with
\* a message: the function logger i installs calls originalConsole of i,
\* which is what was installed when i was created, and then queueLog of i
hears(made, fn) ==
  LET RECURSIVE chain(_)
      chain(f) == IF f = 0 THEN {}
                  ELSE { f } \cup chain(made[f].originalConsole)
  IN  chain(fn)

\* setupConsoleCapture() of logger i
setupConsoleCapture(L, i) ==
  IF L.made[i].consolePatched \/ ~L.made[i].capture THEN L
  ELSE [ L EXCEPT !.console = i, !.made[i].consolePatched = TRUE ]

\* restoreConsole() of logger i
restoreConsole(L, i) ==
  IF ~L.made[i].consolePatched THEN L
  ELSE [ L EXCEPT !.console = L.made[i].originalConsole,
                  !.made[i].consolePatched = FALSE ]

\* CreateLoggy(config), config: capture.console, remote.token,
\* remote.publicKey (as the tracer's) and remote.batchSize
CreateLoggy(config) ==
  /\ Len(logger.made) < MaxLoggers
  /\ LET lg == [ capture |-> config.capture, token |-> config.token,
                 publicKey |-> config.publicKey,
                 batchSize |-> config.batchSize,
                 originalConsole |-> logger.console,
                 consolePatched |-> FALSE,
                 logBuffer |-> << >>,
                 flushTimer |-> config.token,
                 flights |-> {} ]
     IN  logger' = setupConsoleCapture([ logger EXCEPT !.made = Append(@, lg) ],
                                       Len(logger.made) + 1)

\* the loggers in hs have queued entry
Queued(hs, entry) ==
  [ logger EXCEPT
      !.made = [ j \in DOMAIN @ |->
                   IF j \in hs THEN queueLog(@[j], entry) ELSE @[j] ],
      !.heard = hs,
      !.n = @ + 1 ]

\* console.log / info / warn / error called by the application with a
\* message, which no installed function queues if it is empty
ConsoleCall(message) ==
  /\ logger.n < MaxLogCalls
  /\ logger' = Queued(IF message = "" THEN {}
                      ELSE hears(logger.made, logger.console),
                      logger.n + 1)

\* log / info / warn / error of logger i: `consoleFn(formatMessage(...))`
\* with the originalConsole of i, then `queueLog(...)`
LoggerLog(i, entry) ==
  /\ i \in DOMAIN logger.made
  /\ logger.n < MaxLogCalls
  /\ logger' = Queued({ i } \cup hears(logger.made,
                                      logger.made[i].originalConsole),
                      entry)

\* flush() of logger i, or the setInterval callback (origin "timer")
LoggerFlush(i, origin) ==
  /\ i \in DOMAIN logger.made
  /\ origin = "timer" => logger.made[i].flushTimer
  /\ logger' = [ logger EXCEPT !.made[i] = flushLogs(@) ]

\* the continuation of flushLogs() of logger i after the `await fetch` of
\* batch g settled with outcome
LogSettle(i, g, outcome) ==
  /\ i \in DOMAIN logger.made
  /\ g \in logger.made[i].flights
  /\ logger' = [ logger EXCEPT
                   !.made[i].flights = @ \ { g },
                   !.made[i].logBuffer =
                      IF outcome = "ok" THEN @ ELSE requeueLogs(g, @) ]

\* destroy() of logger i: clearInterval, restoreConsole(), flushLogs()
LoggerDestroy(i) ==
  /\ i \in DOMAIN logger.made
  /\ logger' = [ restoreConsole(logger, i) EXCEPT
                   !.made[i] = flushLogs([ @ EXCEPT !.flushTimer = FALSE ]) ]

\* loggers with and without console capture and token, beside a tracer that
\* is left alone; restoreConsole() and enableConsoleCapture() of a logger
NextConsole ==
  /\ \/ \E capture \in BOOLEAN, tok \in BOOLEAN :
          CreateLoggy([ capture |-> capture, token |-> tok,
                        publicKey |-> "ok",
                        batchSize |-> DefaultLogBatchSize ])
     \/ \E i \in DOMAIN logger.made : logger' = restoreConsole(logger, i)
     \/ \E i \in DOMAIN logger.made : logger' = setupConsoleCapture(logger, i)
     \/ \E message \in { "", "m" } : ConsoleCall(message)
     \/ \E i \in 1..MaxLoggers : LoggerLog(i, logger.n + 1)
     \/ \E i \in 1..MaxLoggers : LoggerFlush(i, "manual")
     \/ \E i \in DOMAIN logger.made, outcome \in { "ok", "notok" } :
          \E g \in logger.made[i].flights : LogSettle(i, g, outcome)
     \/ \E i \in 1..MaxLoggers : LoggerDestroy(i)
  /\ UNCHANGED << configVars, apiVars, flushTimer, spans, activeSpans,
                  spanBuffer, inflight, delivered, destroyed, netUp, last,
                  scn, calls, codec, metrics >>

SpecConsole == InitMetrics /\ [][NextConsole]_vars

\* -------------------------------------------------------------- claim C31
\* C31: once every logger created with console capture has been restored
\* (by restoreConsole() or destroy()), in any order of creation and
\* restoration, console.log/info/warn/error are the functions that were
\* installed before any logger was created, and a console call is queued by
\* no logger.
C31_ConsoleRestored ==
  ( /\ \E i \in DOMAIN logger.made : logger.made[i].capture
    /\ \A i \in DOMAIN logger.made : ~logger.made[i].consolePatched )
  => ( /\ logger.console = 0
       /\ hears(logger.made, logger.console) = {} )

\* -------------------------------------------------------------- claim C32
\* C32: a tracer constructed without a remote token never buffers and never
\* sends: after any sequence of startSpan, end, flush and destroy its
\* pending buffer is empty, it has no flush timer, no POST of it is in
\* flight and none has been answered; a span it starts is added to the
\* active registry and a span that is ended is removed from it.
C32_TokenlessTracer ==
  /\ ~token => (spanBuffer = << >> /\ ~flushTimer /\ inflight = {})
  /\ [][ ~token =>
           /\ spanBuffer' = << >> /\ ~flushTimer' /\ inflight' = {}
           /\ \A s \in DOMAIN delivered : delivered'[s] = 0
           /\ \A s \in DOMAIN spans' :
                /\ s \notin DOMAIN spans => s \in Range(activeSpans')
                /\ ( /\ s \in DOMAIN spans
                     /\ isRecording(spans[s]) /\ ~isRecording(spans'[s]) )
                   => ( /\ s \in Range(activeSpans)
                        /\ s \notin Range(activeSpans') ) ]_vars

\* a tokenless tracer that was destroyed and flushed, with a span ended and a
\* span still active
C32_Witness ==
  /\ ~token
  /\ Ended(1) /\ activeSpans = << 2 >>
  /\ destroyed.st # "none"
  /\ last.op = "flush"

\* a logger created with the token, key and batch size of the tracer, and
\* from then on every event given to both: a span that ends as an entry is
\* logged, flush() with flush(), a tick of the interval timers, destroy()
\* with destroy(), and one answer to the POSTs that carry the same batch
NextPipelines ==
  \/ /\ logger.made = << >>
     /\ CreateLoggy([ capture |-> FALSE, token |-> token,
                      publicKey |-> publicKey, batchSize |-> batchSize ])
     /\ UNCHANGED << configVars, apiVars, flushTimer, spans, activeSpans,
                     spanBuffer, inflight, delivered, destroyed, netUp,
                     last, scn, calls, codec, metrics >>
  \/ logger.made # << >> /\ StartSpan(MaxSpans)
  \/ \E s \in DOMAIN spans :
       /\ logger.made # << >>
       /\ CallsOnEnd(spans[s])
       /\ EndAs("end", s, Now, spans[s])
       /\ LoggerLog(1, s)
       /\ UNCHANGED apiVars
  \/ FlushCall("manual") /\ LoggerFlush(1, "manual")
  \/ flushTimer /\ FlushCall("timer") /\ LoggerFlush(1, "timer")
  \/ Destroy /\ LoggerDestroy(1)
  \/ \E f \in inflight, outcome \in { "ok", "notok", "throw" } :
       \E g \in logger.made[1].flights :
         /\ g = [ k \in 1..Len(f.batch) |-> f.batch[k].spanId ]
         /\ Settle(f, outcome)
         /\ LogSettle(1, g, outcome)

SpecPipelines == Init /\ [][NextPipelines]_vars

\* -------------------------------------------------------------- claim C33
\* C33: the logger's pipeline (queueLog / flushLogs / destroy) and the
\* tracer's (onSpanEnd / flush / destroy), given the same events with the
\* same batch size, key and token, agree in every state: the pending buffers
\* hold the same items in the same order, the POSTs in flight carry the same
\* batches, and the timers are armed alike.
C33_SamePipeline ==
  logger.made # << >> =>
    LET lg == logger.made[1]
        ids(q) == [ k \in 1..Len(q) |-> q[k].spanId ]
    IN  /\ lg.logBuffer = ids(spanBuffer)
        /\ lg.flights = { ids(f.batch) : f \in inflight }
        /\ Cardinality(lg.flights) = Cardinality(inflight)
        /\ lg.flushTimer = flushTimer

\* a POST of both failed after another item was queued: the batch is back in
\* front of that item in both buffers
C33_Witness ==
  /\ logger.made # << >>
  /\ last.op = "settle" /\ last.how # "ok" /\ last.enq = 1
  /\ logger.made[1].logBuffer = << 1, 2 >>
  /\ Len(spanBuffer) = 2

\* ============================================================ propagation
\* the spans started beside the carriers
MaxHops == 2

\* ctx = tracer.extract(tracer.inject(carrier)): inject writes the header of
\* the current span's context (its ids as the strings they are, traceFlags 1)
\* into the carrier it is given and returns that carrier, extract parses it
InjectExtract(carrier) ==
  /\ LET current == getCurrentSpan(activeSpans)
         injected ==
           IF current = Absent THEN carrier
           ELSE Upsert(carrier,
                  { << "traceparent",
                       formatTraceparentText(
                         [ traceId |-> IdText(spans[s].traceId, TraceIdLength),
                           spanId |-> IdText(spans[s].spanId, SpanIdLength),
                           traceFlags |-> 1 ]) >> : s \in current })
     IN  returned' = [ arg |-> carrier, carrier |-> injected,
                       context |-> extractContext(injected),
                       span |-> current ]
  /\ last' = Call("extract", "-", "-", "returned")
  /\ UNCHANGED outsideVars
  /\ UNCHANGED << configVars, snapshot, history, ws, http, flushTimer, spans,
                  activeSpans, spanBuffer, inflight, delivered, destroyed,
                  netUp, scn, calls >>

\* spans started and ended, contexts sent through carriers that are empty or
\* hold a traceparent received earlier or another header, and spans started
\* with the extracted context as parent
NextPropagation ==
  \/ StartSpan(MaxHops)
  \/ \E s \in 1..MaxHops : End(s, Now)
  \/ \E carrier \in { {},
                       { << "traceparent", RemoteHeader >>,
                         << "x-request-id", << "r" >> >> },
                       { << "Traceparent", RemoteHeader >> } } :
       InjectExtract(carrier)
  \/ /\ returned.context # Absent
     /\ StartSpanWith(MaxHops,
                      { [ traceId |-> IdOf(c.traceId),
                          spanId |-> IdOf(c.spanId) ] :
                          c \in returned.context },
                      {}, "this")
     /\ UNCHANGED http

SpecPropagation == InitSpan /\ [][NextPropagation]_vars

\* -------------------------------------------------------------- claim C34
\* C34: propagation round trip. When a tracer has a current span S,
\* extract(inject(carrier)) returns a context with S's traceId, S's spanId
\* and traceFlags 1; inject overwrites a traceparent already in the carrier
\* and leaves every other key of the carrier as it was; and a span started
\* with the extracted context as parent has S's traceId and S's spanId as its
\* parentSpanId.
C34_PropagationRoundTrip ==
  /\ \A S \in returned.span :
       /\ returned.context =
            { [ traceId |-> IdText(spans[S].traceId, TraceIdLength),
                spanId |-> IdText(spans[S].spanId, SpanIdLength),
                traceFlags |-> 1 ] }
       /\ Cardinality({ kv \in returned.carrier : kv[1] = "traceparent" }) = 1
       /\ { kv \in returned.carrier : kv[1] # "traceparent" }
            = { kv \in returned.arg : kv[1] # "traceparent" }
  /\ [][ \A S \in returned.span :
           ( /\ Len(spans') = Len(spans) + 1
             /\ history'.parent[Len(spans')] # Absent )
           => /\ spans'[Len(spans')].traceId = spans[S].traceId
              /\ spans'[Len(spans')].parentSpanId = spans[S].spanId ]_vars

\* the context of span 1, child of no span, went through a carrier that held
\* a received traceparent and another header, and span 2 was started with it
C34_Witness ==
  /\ returned.span = { 1 }
  /\ returned.arg = { << "traceparent", RemoteHeader >>,
                      << "x-request-id", << "r" >> >> }
  /\ Len(spans) = 2
  /\ spans[2].parentSpanId = 1 /\ spans[2].traceId = 1
  /\ spans[1].parentSpanId = NoId

\* ======================================================= nested withSpan
\* withSpan calls that may be made by the fn of a withSpan call that is
\* pending, beside spans the application starts and ends itself; of two
\* calls in flight the fn of the later one is followed
NextNested ==
  \/ StartSpan(MaxCtxSpans)
  \/ \E s \in 1..MaxCtxSpans : s \notin ws.spans /\ End(s, Now)
  \/ \E fnThrows \in BOOLEAN : WithSpan(MaxCtxSpans, {}, fnThrows)
  \/ FnResolve("v1")
  \/ FnReject("Error")

SpecNested == InitSpan /\ [][NextNested]_vars

\* -------------------------------------------------------------- claim C35
\* C35: the span withSpan creates is a child of the span that is current
\* (most recently started, still active, process-wide) when withSpan is
\* called, and a trace root if no span is active; so for a withSpan call made
\* by the fn of a pending withSpan call with no other span started in
\* between, the inner span's parentSpanId is the outer span's spanId and
\* both have one traceId.
C35_WithSpanParent ==
  [][ ( last'.op = "withSpan" /\ Len(spans') = Len(spans) + 1 ) =>
        LET inner == spans'[Len(spans')]
        IN  /\ MostRecentActive = {} =>
                 /\ inner.parentSpanId = NoId
                 /\ \A r \in DOMAIN spans : spans[r].traceId # inner.traceId
            /\ \A c \in MostRecentActive :
                 /\ inner.parentSpanId = spans[c].spanId
                 /\ inner.traceId = spans[c].traceId
            /\ ( ws'.outer # NoId /\ ws'.outer = Len(spans) ) =>
                 /\ inner.parentSpanId = spans[ws'.outer].spanId
                 /\ inner.traceId = spans[ws'.outer].traceId
    ]_vars

\* a withSpan call made inside the fn of a withSpan call that was itself
\* made under a span of the application: three spans of one trace
C35_Witness ==
  /\ Len(spans) = 3 /\ ws.span = 3 /\ ws.outer = 2 /\ ws.spans = { 2, 3 }
  /\ spans[3].parentSpanId = 2 /\ spans[2].parentSpanId = 1
  /\ spans[3].traceId = 1

\* ---------------------------------------------------- buffer order (C36)
\* The pipeline under a clock that advances between end() calls: the
\* `Date.now()` a span's end() reads is later than the one read by every
\* end() before it, so the endTime of a record tells when its span ended.
NextOrder ==
  \/ StartSpan(MaxSpans)
  \/ \E s \in 1..MaxSpans :
       /\ s \in DOMAIN spans /\ spans[s].recording
       /\ End(s, Now + Cardinality({ r \in DOMAIN spans : Ended(r) }))
  \/ Flush
  \/ TimerFlush
  \/ Destroy /\ UNCHANGED logger
  \/ FetchOk
  \/ FetchNotOk
  \/ FetchThrow

SpecOrder == Init /\ [][NextOrder]_vars

\* -------------------------------------------------------------- claim C36
\* C36 as stated: the pending span buffer is always ordered by the time the
\* spans were ended: a record of a span that ended earlier never stands
\* after a record of a span that ended later, whatever happened in between
\* (overlapping flushes and failed network calls included).
C36_Original ==
  \A i, j \in DOMAIN spanBuffer :
    i < j => spanBuffer[i].endTime <= spanBuffer[j].endTime

\* C36 amended: end() calls, flushes and successful POSTs keep the pending
\* buffer ordered by end time, and so does the failure of a flush that no
\* other flush overlapped (the buffer then holds exactly the records
\* enqueued during the call, behind which the batch is put back). A failed
\* flush puts its batch in front of whatever the buffer holds, so the batch
\* of an overlapped flush can come to stand in front of older records.
C36_OrderedUnlessOverlapped ==
  [][ LET OrderedByEnd(buf) ==
            \A i, j \in DOMAIN buf : i < j => buf[i].endTime <= buf[j].endTime
      IN
      /\ \A f \in inflight :
           ( FailedSettle(f) /\ OrderedByEnd(f.batch) /\ spanBuffer = f.enq )
             => OrderedByEnd(spanBuffer')
      /\ \A f \in inflight :
           FailedSettle(f) => spanBuffer' = f.batch \o spanBuffer
      /\ ( OrderedByEnd(spanBuffer) /\ ~ \E f \in inflight : FailedSettle(f) )
           => OrderedByEnd(spanBuffer') ]_vars

\* a POST failed after a later span was ended during the call: the batch
\* was put back in front of the later record
C36_Witness ==
  /\ last.op = "settle" /\ last.how # "ok" /\ last.enq = 1
  /\ Len(spanBuffer) = 2
  /\ spanBuffer[1].endTime = Now /\ spanBuffer[2].endTime = Now + 1

\* -------------------------------------------------------------- claim C37
\* C37 as stated: with a token and batchSize >= 1, when an end() call
\* returns the pending buffer holds fewer than batchSize records; the
\* buffer comes to hold batchSize or more records only by the requeue of a
\* failed flush, and such a requeue starts no flush.
C37_Original ==
  [][ /\ \A s \in DOMAIN spans :
           ( /\ token /\ batchSize >= 1 /\ Did("end")
             /\ spans[s].recording /\ ~spans'[s].recording )
             => Len(spanBuffer') < batchSize
      /\ ( Len(spanBuffer) < batchSize /\ Len(spanBuffer') >= batchSize )
           => ( FailedEncrypt \/ \E f \in inflight : FailedSettle(f) )
      /\ \A f \in inflight : FailedSettle(f) => NewFlights = {} ]_vars

\* C37 amended: as stated unless encrypting the payload throws; then the
\* flush started inside end() fails before any await and puts the whole
\* buffer back, so end() returns with the buffer one record longer, at
\* batchSize or more.
C37_BelowBatchSize ==
  [][ /\ \A s \in DOMAIN spans :
           ( /\ token /\ batchSize >= 1 /\ Did("end")
             /\ spans[s].recording /\ ~spans'[s].recording ) =>
             IF publicKey # "throws"
             THEN /\ Len(spanBuffer') < batchSize
                  /\ Len(spanBuffer) + 1 >= batchSize => spanBuffer' = << >>
             ELSE /\ spanBuffer' = Append(spanBuffer, toData(spans'[s]))
                  /\ Len(spanBuffer') >= batchSize => FailedEncrypt
      /\ ( Len(spanBuffer) < batchSize /\ Len(spanBuffer') >= batchSize )
           => ( FailedEncrypt \/ \E f \in inflight : FailedSettle(f) )
      /\ \A f \in inflight :
           FailedSettle(f) => ( NewFlights = {} /\ inflight' = inflight \ {f} )
    ]_vars

\* a failed POST put its batch back: the buffer holds batchSize records or
\* more and no flush is under way
C37_Witness ==
  /\ token /\ publicKey = "ok"
  /\ last.op = "settle" /\ last.how # "ok"
  /\ Len(spanBuffer) >= batchSize /\ inflight = {}

\* -------------------------------------------------------------- claim C38
\* C38: in every state of a span isRecording() is true exactly when endTime
\* is unset; the recording flag only ever goes from true to false, and
\* endTime, once set, never changes.
C38_RecordingIffNoEndTime ==
  /\ \A s \in DOMAIN spans :
       isRecording(spans[s]) <=> spans[s].endTime = NoTime
  /\ [][ \A s \in DOMAIN spans :
           /\ ~isRecording(spans[s]) => ~isRecording(spans'[s])
           /\ spans[s].endTime # NoTime
                => spans'[s].endTime = spans[s].endTime ]_vars

\* a span that ended at the time its end() call was given, not the time of
\* the call, was ended again, with another time or none
C38_Witness ==
  /\ last.op = "end" /\ last.how = "noop" /\ last.origin = "other"
  /\ \E s \in DOMAIN spans :
       /\ spans[s].endTime \notin { NoTime, Now }
       /\ ~isRecording(spans[s])

\* ------------------------------------------- response termination (C39)
\* Traced requests whose response terminates in one of two ways: res.end is
\* called (on a response that had no error), or the response stream emits
\* "error" and res.end is never called. Meanwhile the tracer's interval
\* timer fires and the POSTs of its flushes settle.
NextTermination ==
  \/ \E headers \in { {}, { << "traceparent", RemoteHeader >> } } :
       Middleware(<< "/", "a" >>, headers)
  \/ \E r \in DOMAIN http.reqs, code \in { 399, 400 } :
       http.reqs[r].errors = 0 /\ ResEnd(r, code)
  \/ \E r \in DOMAIN http.reqs : http.reqs[r].ends = 0 /\ ResError(r)
  \/ TimerFlush
  \/ FetchOk
  \/ FetchNotOk
  \/ FetchThrow

SpecTermination == InitSpan /\ [][NextTermination]_vars /\ Fairness

\* -------------------------------------------------------------- claim C39
\* C39: every span the tracing middleware started is eventually ended and
\* removed from the registry of active spans once its response terminates,
\* be it by res.end or by an error event of the response stream without
\* completion.
C39_SpanEventuallyEnded ==
  \A r \in 1..MaxRequests :
    ( IF r \in DOMAIN http.reqs
      THEN /\ http.reqs[r].span # NoId
           /\ http.reqs[r].ends + http.reqs[r].errors > 0
      ELSE FALSE )
    ~> ( IF r \in DOMAIN http.reqs
         THEN /\ Ended(http.reqs[r].span)
              /\ http.reqs[r].span \notin Range(activeSpans)
         ELSE FALSE )

\* -------------------------------------------------------------- claim C40
\* C40: if the response stream of a traced request emits "error" before the
\* response completes, the span's final status, the one in the record handed
\* to the tracer at completion, is error, and the record holds the exception
\* event, whatever the status code at completion.
C40_ErrorBeforeCompletion ==
  [][ \A r \in DOMAIN http.reqs :
        ( /\ http.reqs[r].errors > 0
          /\ http.reqs[r].ends = 0 /\ http'.reqs[r].ends = 1 ) =>
          LET s == http.reqs[r].span
              rec == toData(spans'[s])
          IN  /\ spans'[s].status = "error"
              /\ \E i \in DOMAIN spans'[s].events :
                   spans'[s].events[i].name = "exception"
              /\ token => /\ rec \in Range(spanBuffer')
                          /\ rec.status = "error"
                          /\ rec.events # Absent
    ]_vars

====
